---- MODULE Spec2Model ----
(***************************************************************************)
(* Model of the signature-gated BatchDelegator                             *)
(* (src/src/contracts/batchDelegatorWithCallers.sol, lines 10-201).        *)
(*                                                                         *)
(* The executor's storage (admin, allowedCallers, usedNonces, initialized) *)
(* and the part of the ledger its forwarded calls can touch (balances and  *)
(* the storage of one token contract) form the world `w`.  Every entry     *)
(* point is an operator from (world, request) to an outcome; a revert      *)
(* yields the world the invocation started in, as the EVM does.            *)
(***************************************************************************)
EXTENDS Integers, Sequences, FiniteSets, TLC

(***************************************************************************)
(* Bounds of the model.                                                    *)
(***************************************************************************)
MaxNonce == 2
MaxTime == 2
MaxBatchLen == 3
MaxFunds == 2
MaxChainId == 257
MaxAuthNonce == 2

(***************************************************************************)
(* Addresses.  A key is named by the address it controls.                  *)
(***************************************************************************)
ZeroAddress == "0x0"
Keys == {"alice", "bob"}
\* address(this): the account running the delegator code
This == "this"
\* an account without code, and a token contract, as call targets
Recipient == "recipient"
Token == "token"
\* what ecrecover yields for a well-formed signature made over another hash:
\* an address nobody holds the key of
Stranger == "stranger"
Accounts == {This, Recipient, Token}
Invokers == {"relayer"}

Nonces == 0..MaxNonce
Times == 0..MaxTime

(***************************************************************************)
(* Hashing and signatures.                                                 *)
(* abi.encode is modelled by its type layout and its field values, and     *)
(* keccak256 as injective on them.  A 32-byte hash is a record             *)
(* [prefix, layout, fields]: prefix is "" for the plain digest and the     *)
(* signed-message prefix once toEthSignedMessageHash wrapped it.           *)
(***************************************************************************)
EthPrefix == "\\x19Ethereum Signed Message:\\n32"

keccak_abi_encode(layout, fields) ==
    [prefix |-> "", layout |-> layout, fields |-> fields]

getBatchHash(calls, nonce, deadline) ==
    keccak_abi_encode("((address,uint256,bytes)[],uint256,uint256)",
                      [calls |-> calls, nonce |-> nonce, deadline |-> deadline])

\* a digest that also covers the address of the executor
getAdminChangeHashBound(newAdmin, nonce, deadline) ==
    keccak_abi_encode("(address,uint256,uint256,address)",
                      [newAdmin |-> newAdmin, nonce |-> nonce, deadline |-> deadline,
                       executor |-> This])

getAdminChangeHash(newAdmin, nonce, deadline) ==
    keccak_abi_encode("(address,uint256,uint256)",
                      [newAdmin |-> newAdmin, nonce |-> nonce, deadline |-> deadline])

getCallerUpdateHash(callers, isAdding, nonce, deadline) ==
    keccak_abi_encode("(address[],bool[],uint256,uint256)",
                      [callers |-> callers, isAdding |-> isAdding,
                       nonce |-> nonce, deadline |-> deadline])

\* a wrapping that adds no prefix
toEthSignedMessageHashNoPrefix(h) == h

toEthSignedMessageHash(h) == [h EXCEPT !.prefix = EthPrefix]

\* equality of two 32-byte hashes (fields are compared only under one layout)
SameHash(a, b) ==
    /\ a.prefix = b.prefix
    /\ a.layout = b.layout
    /\ a.fields = b.fields

\* a 65-byte signature made with `key` over the 32-byte hash `h`
Sign(key, h) == [key |-> key, signed |-> h, malformed |-> FALSE]
\* bytes that are no signature (wrong length, high s, ecrecover gives 0)
MalformedSignature ==
    [key |-> ZeroAddress, signed |-> keccak_abi_encode("()", [none |-> TRUE]),
     malformed |-> TRUE]

\* a recovery that, as the ecrecover precompile does, answers address(0) for
\* bytes that are no signature
ECDSA_recoverZero(h, sig) ==
    IF sig.malformed THEN [ok |-> TRUE, signer |-> ZeroAddress]
    ELSE IF SameHash(sig.signed, h) THEN [ok |-> TRUE, signer |-> sig.key]
    ELSE [ok |-> TRUE, signer |-> Stranger]

\* ECDSA.recover: reverts on a malformed signature, never returns address(0)
ECDSA_recover(h, sig) ==
    IF sig.malformed THEN [ok |-> FALSE, signer |-> ZeroAddress]
    ELSE IF SameHash(sig.signed, h) THEN [ok |-> TRUE, signer |-> sig.key]
    ELSE [ok |-> TRUE, signer |-> Stranger]

(***************************************************************************)
(* The authorization digest of the off-chain scripts.                      *)
(* Bytes are sequences of numbers below 256; keccak256 is injective.       *)
(***************************************************************************)
keccak256(bytes) == [prefix |-> "", layout |-> "bytes", fields |-> bytes]

\* the big-endian bytes of n > 0, without leading zero
RECURSIVE BeBytes(_)
BeBytes(n) == IF n = 0 THEN <<>> ELSE Append(BeBytes(n \div 256), n % 256)

\* a conversion that writes 0 as no byte
toBeHexMinimal(n) == BeBytes(n)

\* ethers toBeHex(value): hex digits padded to whole bytes; 0 is "0x00"
toBeHex(n) == IF n = 0 THEN <<0>> ELSE BeBytes(n)

\* value ? toBeHex(value) : '0x'
toBeHexOrEmpty(n) == IF n = 0 THEN <<>> ELSE toBeHex(n)

\* the header of an RLP string or list of the given length
RlpHeader(short, length) ==
    IF length <= 55 THEN <<short + length>>
    ELSE <<short + 55 + Len(BeBytes(length))>> \o BeBytes(length)

\* ethers encodeRlp of a byte string
RlpString(bytes) ==
    IF Len(bytes) = 1 /\ bytes[1] <= 127 THEN bytes
    ELSE RlpHeader(128, Len(bytes)) \o bytes

RECURSIVE RlpPayload(_)
RlpPayload(items) ==
    IF items = <<>> THEN <<>> ELSE RlpString(Head(items)) \o RlpPayload(Tail(items))

\* ethers encodeRlp of a list of byte strings
encodeRlp(items) ==
    LET payload == RlpPayload(items)
    IN  RlpHeader(192, Len(payload)) \o payload

\* process.env.DELEGATOR_ADDRESS: 20 bytes, the address of a deployed
\* delegator or, to revoke a delegation, the zero address
DelegatorAddr == [i \in 1..20 |-> 222]
ZeroDelegatorAddr == [i \in 1..20 |-> 0]
MAGIC_PREFIX == <<5>>

\* a digest whose list holds the prefix as its first item
delegate_messageHashPrefixInside(chainId, delegatorAddr, authNonce) ==
    keccak256(encodeRlp(<<MAGIC_PREFIX, toBeHexOrEmpty(chainId), delegatorAddr,
                          toBeHexOrEmpty(authNonce)>>))

\* delegate.ts: keccak256(0x05 || RLP([chainId, delegatedContract, authNonce]))
delegate_messageHash(chainId, delegatorAddr, authNonce) ==
    keccak256(MAGIC_PREFIX \o encodeRlp(<<toBeHexOrEmpty(chainId), delegatorAddr,
                                          toBeHexOrEmpty(authNonce)>>))

\* delegate_and_execute.ts, first version: 'Old hash'
delegateAndExecute_messageHash(chainId, delegatorAddr, authNonce) ==
    LET rlpEncoded == encodeRlp(<<toBeHex(chainId), delegatorAddr,
                                  toBeHexOrEmpty(authNonce)>>)
    IN  keccak256(MAGIC_PREFIX \o rlpEncoded)

\* delegate_and_execute.ts, first version: 'New hash'
delegateAndExecute_hash(chainId, delegatorAddr, authNonce) ==
    keccak256(MAGIC_PREFIX \o encodeRlp(<<toBeHexOrEmpty(chainId), delegatorAddr,
                                          toBeHexOrEmpty(authNonce)>>))

\* delegate_and_execute.ts, second version
delegateAndExecute2_messageHash(chainId, delegatorAddr, authNonce) ==
    keccak256(MAGIC_PREFIX \o encodeRlp(<<toBeHexOrEmpty(chainId), delegatorAddr,
                                          toBeHexOrEmpty(authNonce)>>))

\* new SigningKey(privateKey).sign(digest): a signature over the digest as it is
SigningKey_sign(key, digest) == Sign(key, digest)

(***************************************************************************)
(* Outcomes of an invocation.                                              *)
(***************************************************************************)
OK == "ok"
NoBytes == [len |-> 0, word |-> 0]

Success(cur, events, results) ==
    [w |-> cur, err |-> OK, events |-> events, results |-> results]

\* a revert that leaves the changes made so far in place
\* (w.forwarded is the trace of the calls the transaction has made: a revert
\* undoes the storage and the ledger, the calls were made all the same)
RevertKeepsChanges(pre, cur, err) ==
    [w |-> cur, err |-> err, events |-> <<>>, results |-> <<>>]

\* revert: every change made since the invocation began (pre) is undone
Revert(pre, cur, err) ==
    [w |-> [pre EXCEPT !.forwarded = cur.forwarded], err |-> err, events |-> <<>>,
     results |-> <<>>]

(***************************************************************************)
(* The checks shared by the gated entry points.                            *)
(***************************************************************************)
\* the comparison taken inclusively
DeadlinePassedInclusive(now, deadline) == now >= deadline

\* block.timestamp > deadline
DeadlinePassed(now, deadline) == now > deadline

\* usedNonces[nonce]
NonceUsed(w, nonce) == nonce \in w.usedNonces

\* a marking that forgets the nonces marked before
MarkNonceForgets(w, nonce) == [w EXCEPT !.usedNonces = {nonce}]
\* a marking that marks nothing
MarkNonceNoop(w, nonce) == w

\* usedNonces[nonce] = true
MarkNonce(w, nonce) == [w EXCEPT !.usedNonces = @ \cup {nonce}]

\* a check that accepts every signer
IsAdminAlways(w, signer) == TRUE

\* signer != admin, negated
IsAdmin(w, signer) == signer = w.admin

\* a check that accepts every signer
IsAllowedCallerAlways(w, signer) == TRUE

\* a check that also accepts the admin
IsAllowedCallerOrAdmin(w, signer) == signer \in w.allowedCallers \/ signer = w.admin

\* allowedCallers[signer]
IsAllowedCaller(w, signer) == signer \in w.allowedCallers

(***************************************************************************)
(* initialize(address _admin)                                              *)
(***************************************************************************)
AdminChanged(previousAdmin, newAdmin) ==
    [name |-> "AdminChanged", previousAdmin |-> previousAdmin, newAdmin |-> newAdmin]

\* an initialize without the initialized check
initializeUnguarded(w, _admin) ==
    Success([w EXCEPT !.initialized = TRUE, !.admin = _admin],
            <<AdminChanged(ZeroAddress, _admin)>>, <<>>)


initialize(w, _admin) ==
    IF w.initialized THEN Revert(w, w, "AlreadyInitialized")
    ELSE Success([w EXCEPT !.initialized = TRUE, !.admin = _admin],
                 <<AdminChanged(ZeroAddress, _admin)>>, <<>>)

(***************************************************************************)
(* setAdmin(SignedAdminChange signedChange)                                *)
(***************************************************************************)
\* a setAdmin that also empties the allow list
setAdminClearsCallers(w, now, signedChange) ==
    IF DeadlinePassed(now, signedChange.deadline) THEN Revert(w, w, "DeadlineExpired")
    ELSE IF NonceUsed(w, signedChange.nonce) THEN Revert(w, w, "NonceAlreadyUsed")
    ELSE
      LET w1 == MarkNonce(w, signedChange.nonce)
          messageHash == getAdminChangeHash(signedChange.newAdmin, signedChange.nonce,
                                            signedChange.deadline)
          ethSignedMessageHash == toEthSignedMessageHash(messageHash)
          rec == ECDSA_recover(ethSignedMessageHash, signedChange.signature)
      IN  IF ~rec.ok THEN Revert(w, w1, "ECDSAInvalidSignature")
          ELSE IF ~IsAdmin(w1, rec.signer) THEN Revert(w, w1, "InvalidSignature")
          ELSE Success([w1 EXCEPT !.admin = signedChange.newAdmin,
                                  !.allowedCallers = {}],
                       <<AdminChanged(w1.admin, signedChange.newAdmin)>>, <<>>)

setAdmin(w, now, signedChange) ==
    IF DeadlinePassed(now, signedChange.deadline) THEN Revert(w, w, "DeadlineExpired")
    ELSE IF NonceUsed(w, signedChange.nonce) THEN Revert(w, w, "NonceAlreadyUsed")
    ELSE
      LET w1 == MarkNonce(w, signedChange.nonce)
          messageHash == getAdminChangeHash(signedChange.newAdmin, signedChange.nonce,
                                            signedChange.deadline)
          ethSignedMessageHash == toEthSignedMessageHash(messageHash)
          rec == ECDSA_recover(ethSignedMessageHash, signedChange.signature)
      IN  IF ~rec.ok THEN Revert(w, w1, "ECDSAInvalidSignature")
          ELSE IF ~IsAdmin(w1, rec.signer) THEN Revert(w, w1, "InvalidSignature")
          ELSE Success([w1 EXCEPT !.admin = signedChange.newAdmin],
                       <<AdminChanged(w1.admin, signedChange.newAdmin)>>, <<>>)

(***************************************************************************)
(* updateCallers(SignedCallerUpdate signedUpdate)                          *)
(***************************************************************************)
CallerUpdated(caller, isAdded) ==
    [name |-> "CallerUpdated", caller |-> caller, isAdded |-> isAdded]

\* an assignment that ignores the flag
SetCallerAlwaysAdds(allowed, caller, isAdded) == allowed \cup {caller}

\* allowedCallers[caller] = isAdded
SetCaller(allowed, caller, isAdded) ==
    IF isAdded THEN allowed \cup {caller} ELSE allowed \ {caller}

\* the loop of lines 120-123, from index i on
RECURSIVE UpdateLoop(_, _, _, _, _)
UpdateLoop(w, callers, isAdding, i, events) ==
    IF i > Len(callers) THEN Success(w, events, <<>>)
    ELSE UpdateLoop([w EXCEPT !.allowedCallers = SetCaller(@, callers[i], isAdding[i])],
                    callers, isAdding, i + 1,
                    Append(events, CallerUpdated(callers[i], isAdding[i])))

\* an updateCallers that looks at the deadline before the array lengths
updateCallersDeadlineFirst(w, now, signedUpdate) ==
    IF DeadlinePassed(now, signedUpdate.deadline) THEN Revert(w, w, "DeadlineExpired")
    ELSE IF Len(signedUpdate.callers) # Len(signedUpdate.isAdding)
    THEN Revert(w, w, "ArrayLengthMismatch")
    ELSE IF NonceUsed(w, signedUpdate.nonce) THEN Revert(w, w, "NonceAlreadyUsed")
    ELSE
      LET w1 == MarkNonce(w, signedUpdate.nonce)
          messageHash == getCallerUpdateHash(signedUpdate.callers, signedUpdate.isAdding,
                                             signedUpdate.nonce, signedUpdate.deadline)
          ethSignedMessageHash == toEthSignedMessageHash(messageHash)
          rec == ECDSA_recover(ethSignedMessageHash, signedUpdate.signature)
      IN  IF ~rec.ok THEN Revert(w, w1, "ECDSAInvalidSignature")
          ELSE IF ~IsAdmin(w1, rec.signer) THEN Revert(w, w1, "InvalidSignature")
          ELSE UpdateLoop(w1, signedUpdate.callers, signedUpdate.isAdding, 1, <<>>)

updateCallers(w, now, signedUpdate) ==
    IF Len(signedUpdate.callers) # Len(signedUpdate.isAdding)
    THEN Revert(w, w, "ArrayLengthMismatch")
    ELSE IF DeadlinePassed(now, signedUpdate.deadline) THEN Revert(w, w, "DeadlineExpired")
    ELSE IF NonceUsed(w, signedUpdate.nonce) THEN Revert(w, w, "NonceAlreadyUsed")
    ELSE
      LET w1 == MarkNonce(w, signedUpdate.nonce)
          messageHash == getCallerUpdateHash(signedUpdate.callers, signedUpdate.isAdding,
                                             signedUpdate.nonce, signedUpdate.deadline)
          ethSignedMessageHash == toEthSignedMessageHash(messageHash)
          rec == ECDSA_recover(ethSignedMessageHash, signedUpdate.signature)
      IN  IF ~rec.ok THEN Revert(w, w1, "ECDSAInvalidSignature")
          ELSE IF ~IsAdmin(w1, rec.signer) THEN Revert(w, w1, "InvalidSignature")
          ELSE UpdateLoop(w1, signedUpdate.callers, signedUpdate.isAdding, 1, <<>>)

(***************************************************************************)
(* The forwarded call  c.target.call{ value: c.value }(c.data)             *)
(* The targets are an account without code, a token contract whose         *)
(* functions answer in the ways a callee can answer, and the executor      *)
(* itself (under EIP-7702 the delegating account runs this code, so a      *)
(* call to address(this) re-enters it).  Call data is a record: the        *)
(* function selected, and for the executor's own functions the argument.   *)
(***************************************************************************)
BoolBytes(b) == [len |-> 32, word |-> IF b THEN 1 ELSE 0]
UintBytes(n) == [len |-> 32, word |-> n]
\* abi.encode(bytes[] results), the return data of executeBatch: the offset
\* of the array (32, the first word), its length, an offset for each element,
\* and each element as its length and its bytes padded to whole words
BytesArrayBytes(results) ==
    LET size[i \in 0..Len(results)] ==
          IF i = 0 THEN 64
          ELSE size[i - 1] + 64 + 32 * ((results[i].len + 31) \div 32)
    IN  [len |-> size[Len(results)], word |-> 32]

CallResult(ok, ret, w, events) == [ok |-> ok, ret |-> ret, w |-> w, events |-> events]

\* the token's functions: what each returns, whether it reverts, what it stores
TokenCall(w, data) ==
    CASE data.fn = "transfer" ->
           CallResult(TRUE, BoolBytes(TRUE),
                      [w EXCEPT !.tokenState = @ \cup {"transfer"}], <<>>)
      [] data.fn = "transferFalse" -> CallResult(TRUE, BoolBytes(FALSE), w, <<>>)
      [] data.fn = "balanceOf" -> CallResult(TRUE, UintBytes(2), w, <<>>)
      [] OTHER -> CallResult(FALSE, NoBytes, w, <<>>)

\* a decoding that takes any word for a boolean
DecodesAsBoolLenient(ret) == ret.len >= 32

\* abi.decode(ret, (bool)): reverts unless ret holds a word that is 0 or 1
DecodesAsBool(ret) == ret.len >= 32 /\ ret.word \in {0, 1}

\* an event with the invoker in the signer field and the signer in the
\* executor field
BatchExecutedSwapped(signer, executor, calls, results) ==
    [name |-> "BatchExecuted", signer |-> executor, executor |-> signer,
     calls |-> calls, results |-> results]

BatchExecuted(signer, executor, calls, results) ==
    [name |-> "BatchExecuted", signer |-> signer, executor |-> executor,
     calls |-> calls, results |-> results]

RECURSIVE executeBatch(_, _, _, _)
RECURSIVE SelfCall(_, _, _)
RECURSIVE selfSigning_SelfCall(_, _, _)
RECURSIVE unsafe_SelfCall(_, _, _)
RECURSIVE CallTarget(_, _, _, _)
RECURSIVE ForwardLoop(_, _, _, _, _, _, _, _)

\* a call to address(this) of the allow-list executor: the selected entry
\* point runs on the current storage with msg.sender = address(this); its
\* revert undoes its own changes
SelfCall(w, now, c) ==
    LET r == CASE c.data.fn = "initialize" /\ c.value = 0 ->
                    initialize(w, c.data.arg._admin)
               [] c.data.fn = "setAdmin" /\ c.value = 0 ->
                    setAdmin(w, now, c.data.arg)
               [] c.data.fn = "updateCallers" /\ c.value = 0 ->
                    updateCallers(w, now, c.data.arg)
               [] c.data.fn = "executeBatch" ->
                    \* the value goes from the account to itself
                    executeBatch(w, now, [sender |-> This, value |-> 0], c.data.arg)
               \* the getters of the public state variables and the public
               \* pure hash functions: they take no value and change nothing
               [] c.data.fn \in {"admin", "allowedCallers", "usedNonces", "getBatchHash",
                                "getAdminChangeHash", "getCallerUpdateHash"}
                    /\ c.value = 0 ->
                    Success(w, <<>>, <<>>)
               [] OTHER -> Revert(w, w, "no such function")
        \* the return data: executeBatch returns its results; admin() the
        \* admin as a word (0 for address(0), above 1 for the other
        \* addresses here); the mappings' getters a bool; the hash functions
        \* a keccak256 output, a word above 1; the other functions nothing
        ret == CASE c.data.fn = "executeBatch" -> BytesArrayBytes(r.results)
                 [] c.data.fn = "admin" ->
                      UintBytes(IF w.admin = ZeroAddress THEN 0 ELSE 2)
                 [] c.data.fn = "allowedCallers" ->
                      BoolBytes(c.data.arg \in w.allowedCallers)
                 [] c.data.fn = "usedNonces" -> BoolBytes(c.data.arg \in w.usedNonces)
                 [] c.data.fn \in {"getBatchHash", "getAdminChangeHash",
                                   "getCallerUpdateHash"} -> UintBytes(2)
                 [] OTHER -> NoBytes
    IN  IF r.err # OK THEN CallResult(FALSE, NoBytes, r.w, <<>>)
        ELSE CallResult(TRUE, ret, r.w, r.events)

\* (bool ok, bytes memory ret) = c.target.call{ value: c.value }(c.data)
\* code names the contract the account runs: a call to address(this) reaches
\* the functions of that contract
CallTarget(code, v, now, c) ==
    LET w == [v EXCEPT !.forwarded = Append(@, c)]
    IN
    IF w.balance[This] < c.value THEN CallResult(FALSE, NoBytes, w, <<>>)
    ELSE IF c.target = This
         THEN CASE code = "selfSigning" -> selfSigning_SelfCall(w, now, c)
                [] code = "unsafe" -> unsafe_SelfCall(w, now, c)
                [] OTHER -> SelfCall(w, now, c)
    ELSE IF c.target = Token
         THEN IF c.value > 0 THEN CallResult(FALSE, NoBytes, w, <<>>)
              ELSE TokenCall(w, c.data)
    ELSE CallResult(TRUE, NoBytes,
                    [w EXCEPT !.balance[This] = @ - c.value,
                              !.balance[c.target] = @ + c.value], <<>>)

\* a loop that puts each return data in front of the earlier ones
ForwardLoopPrepends(code, pre, w, now, calls, i, results, events) ==
    IF i > Len(calls) THEN Success(w, events, results)
    ELSE
      LET r == CallTarget(code, w, now, calls[i])
      IN  IF ~r.ok THEN Revert(pre, r.w, "BatchDelegator: call failed")
          ELSE IF r.ret.len > 0 /\ ~DecodesAsBool(r.ret)
               THEN Revert(pre, r.w, "abi.decode")
          ELSE IF r.ret.len > 0 /\ r.ret.word = 0
               THEN Revert(pre, r.w, "BatchDelegator: call returned false")
          ELSE ForwardLoop(code, pre, r.w, now, calls, i + 1, <<r.ret>> \o results,
                           events \o r.events)

\* a loop that forwards the calls after the one that failed before it reverts
ForwardLoopKeepsGoing(code, pre, w, now, calls, i, results, events) ==
    IF i > Len(calls) THEN Success(w, events, results)
    ELSE
      LET r == CallTarget(code, w, now, calls[i])
          rest == ForwardLoop(code, pre, r.w, now, calls, i + 1, results, events)
      IN  IF ~r.ok THEN Revert(pre, rest.w, "BatchDelegator: call failed")
          ELSE IF r.ret.len > 0 /\ ~DecodesAsBool(r.ret)
               THEN Revert(pre, rest.w, "abi.decode")
          ELSE IF r.ret.len > 0 /\ r.ret.word = 0
               THEN Revert(pre, rest.w, "BatchDelegator: call returned false")
          ELSE ForwardLoop(code, pre, r.w, now, calls, i + 1, Append(results, r.ret),
                           events \o r.events)

\* the loop of lines 153-163, from index i on; pre is the world to revert to
ForwardLoop(code, pre, w, now, calls, i, results, events) ==
    IF i > Len(calls) THEN Success(w, events, results)
    ELSE
      LET r == CallTarget(code, w, now, calls[i])
      IN  IF ~r.ok THEN Revert(pre, r.w, "BatchDelegator: call failed")
          ELSE IF r.ret.len > 0 /\ ~DecodesAsBool(r.ret)
               THEN Revert(pre, r.w, "abi.decode")
          ELSE IF r.ret.len > 0 /\ r.ret.word = 0
               THEN Revert(pre, r.w, "BatchDelegator: call returned false")
          ELSE ForwardLoop(code, pre, r.w, now, calls, i + 1, Append(results, r.ret),
                           events \o r.events)

(***************************************************************************)
(* executeBatch(SignedBatch signedBatch), payable                          *)
(***************************************************************************)
\* an executeBatch that marks its nonce after the calls have been forwarded
executeBatchMarksLate(w, now, msg, signedBatch) ==
    LET w0 == [w EXCEPT !.balance[This] = @ + msg.value]
    IN
    IF DeadlinePassed(now, signedBatch.deadline) THEN Revert(w, w0, "DeadlineExpired")
    ELSE IF NonceUsed(w0, signedBatch.nonce) THEN Revert(w, w0, "NonceAlreadyUsed")
    ELSE
      LET messageHash == getBatchHash(signedBatch.calls, signedBatch.nonce,
                                      signedBatch.deadline)
          ethSignedMessageHash == toEthSignedMessageHash(messageHash)
          rec == ECDSA_recover(ethSignedMessageHash, signedBatch.signature)
      IN  IF ~rec.ok THEN Revert(w, w0, "ECDSAInvalidSignature")
          ELSE IF ~IsAllowedCaller(w0, rec.signer) THEN Revert(w, w0, "NotAllowedCaller")
          ELSE
            LET fwd == ForwardLoop("gated", w, w0, now, signedBatch.calls, 1, <<>>, <<>>)
            IN  IF fwd.err # OK THEN fwd
                ELSE Success(MarkNonce(fwd.w, signedBatch.nonce),
                             Append(fwd.events,
                                    BatchExecuted(rec.signer, msg.sender,
                                                  signedBatch.calls, fwd.results)),
                             fwd.results)

\* an executeBatch that refuses a batch without calls
executeBatchNonEmpty(w, now, msg, signedBatch) ==
    LET w0 == [w EXCEPT !.balance[This] = @ + msg.value]
    IN
    IF DeadlinePassed(now, signedBatch.deadline) THEN Revert(w, w0, "DeadlineExpired")
    ELSE IF NonceUsed(w0, signedBatch.nonce) THEN Revert(w, w0, "NonceAlreadyUsed")
    ELSE
      LET w1 == MarkNonce(w0, signedBatch.nonce)
          messageHash == getBatchHash(signedBatch.calls, signedBatch.nonce,
                                      signedBatch.deadline)
          ethSignedMessageHash == toEthSignedMessageHash(messageHash)
          rec == ECDSA_recover(ethSignedMessageHash, signedBatch.signature)
      IN  IF ~rec.ok THEN Revert(w, w1, "ECDSAInvalidSignature")
          ELSE IF ~IsAllowedCaller(w1, rec.signer) THEN Revert(w, w1, "NotAllowedCaller")
          ELSE IF signedBatch.calls = <<>> THEN Revert(w, w1, "BatchDelegator: no calls")
          ELSE
            LET fwd == ForwardLoop("gated", w, w1, now, signedBatch.calls, 1, <<>>, <<>>)
            IN  IF fwd.err # OK THEN fwd
                ELSE Success(fwd.w,
                             Append(fwd.events,
                                    BatchExecuted(rec.signer, msg.sender,
                                                  signedBatch.calls, fwd.results)),
                             fwd.results)

\* an executeBatch that only the signer of the batch may invoke
executeBatchSignerInvokes(w, now, msg, signedBatch) ==
    LET w0 == [w EXCEPT !.balance[This] = @ + msg.value]
    IN
    IF DeadlinePassed(now, signedBatch.deadline) THEN Revert(w, w0, "DeadlineExpired")
    ELSE IF NonceUsed(w0, signedBatch.nonce) THEN Revert(w, w0, "NonceAlreadyUsed")
    ELSE
      LET w1 == MarkNonce(w0, signedBatch.nonce)
          messageHash == getBatchHash(signedBatch.calls, signedBatch.nonce,
                                      signedBatch.deadline)
          ethSignedMessageHash == toEthSignedMessageHash(messageHash)
          rec == ECDSA_recover(ethSignedMessageHash, signedBatch.signature)
      IN  IF ~rec.ok THEN Revert(w, w1, "ECDSAInvalidSignature")
          ELSE IF ~IsAllowedCaller(w1, rec.signer) \/ msg.sender # rec.signer
               THEN Revert(w, w1, "NotAllowedCaller")
          ELSE
            LET fwd == ForwardLoop("gated", w, w1, now, signedBatch.calls, 1, <<>>, <<>>)
            IN  IF fwd.err # OK THEN fwd
                ELSE Success(fwd.w,
                             Append(fwd.events,
                                    BatchExecuted(rec.signer, msg.sender,
                                                  signedBatch.calls, fwd.results)),
                             fwd.results)

\* an executeBatch that looks at the deadline after the calls have been
\* forwarded
executeBatchDeadlineLate(w, now, msg, signedBatch) ==
    LET w0 == [w EXCEPT !.balance[This] = @ + msg.value]
    IN
    IF NonceUsed(w0, signedBatch.nonce) THEN Revert(w, w0, "NonceAlreadyUsed")
    ELSE
      LET w1 == MarkNonce(w0, signedBatch.nonce)
          messageHash == getBatchHash(signedBatch.calls, signedBatch.nonce,
                                      signedBatch.deadline)
          ethSignedMessageHash == toEthSignedMessageHash(messageHash)
          rec == ECDSA_recover(ethSignedMessageHash, signedBatch.signature)
      IN  IF ~rec.ok THEN Revert(w, w1, "ECDSAInvalidSignature")
          ELSE IF ~IsAllowedCaller(w1, rec.signer) THEN Revert(w, w1, "NotAllowedCaller")
          ELSE
            LET fwd == ForwardLoop("gated", w, w1, now, signedBatch.calls, 1, <<>>, <<>>)
            IN  IF fwd.err # OK THEN fwd
                ELSE IF DeadlinePassed(now, signedBatch.deadline)
                     THEN Revert(w, fwd.w, "DeadlineExpired")
                ELSE Success(fwd.w,
                             Append(fwd.events,
                                    BatchExecuted(rec.signer, msg.sender,
                                                  signedBatch.calls, fwd.results)),
                             fwd.results)

executeBatch(w, now, msg, signedBatch) ==
    LET w0 == [w EXCEPT !.balance[This] = @ + msg.value]
    IN
    IF DeadlinePassed(now, signedBatch.deadline) THEN Revert(w, w0, "DeadlineExpired")
    ELSE IF NonceUsed(w0, signedBatch.nonce) THEN Revert(w, w0, "NonceAlreadyUsed")
    ELSE
      LET w1 == MarkNonce(w0, signedBatch.nonce)
          messageHash == getBatchHash(signedBatch.calls, signedBatch.nonce,
                                      signedBatch.deadline)
          ethSignedMessageHash == toEthSignedMessageHash(messageHash)
          rec == ECDSA_recover(ethSignedMessageHash, signedBatch.signature)
      IN  IF ~rec.ok THEN Revert(w, w1, "ECDSAInvalidSignature")
          ELSE IF ~IsAllowedCaller(w1, rec.signer) THEN Revert(w, w1, "NotAllowedCaller")
          ELSE
            LET fwd == ForwardLoop("gated", w, w1, now, signedBatch.calls, 1, <<>>, <<>>)
            IN  IF fwd.err # OK THEN fwd
                ELSE Success(fwd.w,
                             Append(fwd.events,
                                    BatchExecuted(rec.signer, msg.sender,
                                                  signedBatch.calls, fwd.results)),
                             fwd.results)

(***************************************************************************)
(* The self-signing variant (lines 211-342 of the same file): no allow     *)
(* list; executeBatch asks for the signature of the account itself.        *)
(***************************************************************************)
selfSigning_initialize(w, _admin) ==
    IF w.initialized THEN Revert(w, w, "AlreadyInitialized")
    ELSE Success([w EXCEPT !.initialized = TRUE, !.admin = _admin],
                 <<AdminChanged(ZeroAddress, _admin)>>, <<>>)

\* a setAdmin that asks for the signature of the account itself
selfSigning_setAdminByThis(w, now, signedChange) ==
    IF DeadlinePassed(now, signedChange.deadline) THEN Revert(w, w, "DeadlineExpired")
    ELSE IF NonceUsed(w, signedChange.nonce) THEN Revert(w, w, "NonceAlreadyUsed")
    ELSE
      LET w1 == MarkNonce(w, signedChange.nonce)
          messageHash == getAdminChangeHash(signedChange.newAdmin, signedChange.nonce,
                                            signedChange.deadline)
          ethSignedMessageHash == toEthSignedMessageHash(messageHash)
          rec == ECDSA_recover(ethSignedMessageHash, signedChange.signature)
      IN  IF ~rec.ok THEN Revert(w, w1, "ECDSAInvalidSignature")
          ELSE IF rec.signer # This THEN Revert(w, w1, "InvalidSignature")
          ELSE Success([w1 EXCEPT !.admin = signedChange.newAdmin],
                       <<AdminChanged(w1.admin, signedChange.newAdmin)>>, <<>>)

selfSigning_setAdmin(w, now, signedChange) ==
    IF DeadlinePassed(now, signedChange.deadline) THEN Revert(w, w, "DeadlineExpired")
    ELSE IF NonceUsed(w, signedChange.nonce) THEN Revert(w, w, "NonceAlreadyUsed")
    ELSE
      LET w1 == MarkNonce(w, signedChange.nonce)
          messageHash == getAdminChangeHash(signedChange.newAdmin, signedChange.nonce,
                                            signedChange.deadline)
          ethSignedMessageHash == toEthSignedMessageHash(messageHash)
          rec == ECDSA_recover(ethSignedMessageHash, signedChange.signature)
      IN  IF ~rec.ok THEN Revert(w, w1, "ECDSAInvalidSignature")
          ELSE IF rec.signer # w1.admin THEN Revert(w, w1, "InvalidSignature")
          ELSE Success([w1 EXCEPT !.admin = signedChange.newAdmin],
                       <<AdminChanged(w1.admin, signedChange.newAdmin)>>, <<>>)

selfSigning_executeBatch(w, now, msg, signedBatch) ==
    LET w0 == [w EXCEPT !.balance[This] = @ + msg.value]
    IN
    IF DeadlinePassed(now, signedBatch.deadline) THEN Revert(w, w0, "DeadlineExpired")
    ELSE IF NonceUsed(w0, signedBatch.nonce) THEN Revert(w, w0, "NonceAlreadyUsed")
    ELSE
      LET w1 == MarkNonce(w0, signedBatch.nonce)
          messageHash == getBatchHash(signedBatch.calls, signedBatch.nonce,
                                      signedBatch.deadline)
          ethSignedMessageHash == toEthSignedMessageHash(messageHash)
          rec == ECDSA_recover(ethSignedMessageHash, signedBatch.signature)
      IN  IF ~rec.ok THEN Revert(w, w1, "ECDSAInvalidSignature")
          ELSE IF rec.signer # This THEN Revert(w, w1, "InvalidSignature")
          ELSE
            LET fwd == ForwardLoop("selfSigning", w, w1, now, signedBatch.calls, 1, <<>>, <<>>)
            IN  IF fwd.err # OK THEN fwd
                ELSE Success(fwd.w,
                             Append(fwd.events,
                                    BatchExecuted(This, msg.sender,
                                                  signedBatch.calls, fwd.results)),
                             fwd.results)

\* a call to address(this) of the self-signing variant: it has initialize,
\* setAdmin and executeBatch, no updateCallers and no fallback
selfSigning_SelfCall(w, now, c) ==
    LET r == CASE c.data.fn = "initialize" /\ c.value = 0 ->
                    selfSigning_initialize(w, c.data.arg._admin)
               [] c.data.fn = "setAdmin" /\ c.value = 0 ->
                    selfSigning_setAdmin(w, now, c.data.arg)
               [] c.data.fn = "executeBatch" ->
                    \* the value goes from the account to itself
                    selfSigning_executeBatch(w, now, [sender |-> This, value |-> 0],
                                             c.data.arg)
               \* the getters of the public state variables and the public
               \* pure hash functions: they take no value and change nothing
               [] c.data.fn \in {"admin", "usedNonces", "getBatchHash",
                                "getAdminChangeHash"}
                    /\ c.value = 0 ->
                    Success(w, <<>>, <<>>)
               [] OTHER -> Revert(w, w, "no such function")
        \* the return data, as of the allow-list executor's functions
        ret == CASE c.data.fn = "executeBatch" -> BytesArrayBytes(r.results)
                 [] c.data.fn = "admin" ->
                      UintBytes(IF w.admin = ZeroAddress THEN 0 ELSE 2)
                 [] c.data.fn = "usedNonces" -> BoolBytes(c.data.arg \in w.usedNonces)
                 [] c.data.fn \in {"getBatchHash", "getAdminChangeHash"} -> UintBytes(2)
                 [] OTHER -> NoBytes
    IN  IF r.err # OK THEN CallResult(FALSE, NoBytes, r.w, <<>>)
        ELSE CallResult(TRUE, ret, r.w, r.events)

(***************************************************************************)
(* The ungated BatchDelegator (src/unnamed/part_000): executeBatch(calls). *)
(***************************************************************************)
UnsafeBatchExecuted(signer, calls, results) ==
    [name |-> "BatchExecuted", signer |-> signer, calls |-> calls, results |-> results]

\* an executeBatch that only the account itself may invoke
unsafe_executeBatchOwnerOnly(w, now, msg, calls) ==
    LET w0 == [w EXCEPT !.balance[This] = @ + msg.value]
    IN  IF msg.sender # This THEN Revert(w, w0, "BatchDelegator: not owner")
        ELSE
          LET fwd == ForwardLoop("unsafe", w, w0, now, calls, 1, <<>>, <<>>)
          IN  IF fwd.err # OK THEN fwd
              ELSE Success(fwd.w,
                           Append(fwd.events,
                                  UnsafeBatchExecuted(msg.sender, calls, fwd.results)),
                           fwd.results)

unsafe_executeBatch(w, now, msg, calls) ==
    LET w0 == [w EXCEPT !.balance[This] = @ + msg.value]
        fwd == ForwardLoop("unsafe", w, w0, now, calls, 1, <<>>, <<>>)
    IN  IF fwd.err # OK THEN fwd
        ELSE Success(fwd.w,
                     Append(fwd.events,
                            UnsafeBatchExecuted(msg.sender, calls, fwd.results)),
                     fwd.results)

\* a call to address(this) of the ungated contract: its one function is
\* executeBatch(Call[]), and it has no fallback
unsafe_SelfCall(w, now, c) ==
    LET r == IF c.data.fn = "executeBatch((address,uint256,bytes)[])"
             THEN \* the value goes from the account to itself
                  unsafe_executeBatch(w, now, [sender |-> This, value |-> 0],
                                      c.data.values[1])
             ELSE Revert(w, w, "no such function")
    IN  IF r.err # OK THEN CallResult(FALSE, NoBytes, r.w, <<>>)
        ELSE CallResult(TRUE, BytesArrayBytes(r.results), r.w, r.events)

(***************************************************************************)
(* State.                                                                  *)
(***************************************************************************)
VARIABLES
    admin,           \* address public admin
    allowedCallers,  \* mapping(address => bool): the addresses mapped to true
    usedNonces,      \* mapping(uint256 => bool): the nonces mapped to true
    initialized,     \* bool private initialized
    balance,         \* native balance of the accounts
    tokenState,      \* storage of the token contract
    now,             \* block.timestamp
    last,            \* the invocation just made, with its outcome, until its
                     \* invoker has taken the outcome (NoInvocation otherwise)
    script           \* the off-chain script that is running, with the values
                     \* its main function has computed (NoScript otherwise)

storage == <<admin, allowedCallers, usedNonces, initialized>>
ledger == <<balance, tokenState>>
vars ==
    <<admin, allowedCallers, usedNonces, initialized, balance, tokenState, now, last,
      script>>

World ==
    [admin |-> admin, allowedCallers |-> allowedCallers, usedNonces |-> usedNonces,
     initialized |-> initialized, balance |-> balance, tokenState |-> tokenState,
     forwarded |-> <<>>]

Gated == {"setAdmin", "updateCallers", "executeBatch"}

NoInvocation ==
    [op |-> "none", err |-> OK, events |-> <<>>, results |-> <<>>, forwarded |-> <<>>]

NoScript == [name |-> "none"]

\* the executor as deployed: nothing set
Init ==
    /\ admin = ZeroAddress
    /\ allowedCallers = {}
    /\ usedNonces = {}
    /\ initialized = FALSE
    /\ balance = [a \in Accounts |-> IF a = This THEN 1 ELSE 0]
    /\ tokenState = {}
    /\ now = 1
    /\ last = NoInvocation
    /\ script = NoScript

\* no outcome is waiting to be taken
Idle == last.op = "none"

Invocation(op, req, msg) ==
    [op |-> op, req |-> req, msg |-> msg, err |-> OK, events |-> <<>>, results |-> <<>>,
     forwarded |-> <<>>]

\* the transaction with outcome r is committed and reported
Commit(r, invocation) ==
    /\ admin' = r.w.admin
    /\ allowedCallers' = r.w.allowedCallers
    /\ usedNonces' = r.w.usedNonces
    /\ initialized' = r.w.initialized
    /\ balance' = r.w.balance
    /\ tokenState' = r.w.tokenState
    /\ last' = [invocation EXCEPT !.err = r.err, !.events = r.events,
                                  !.results = r.results,
                                  !.forwarded = r.w.forwarded]
    /\ UNCHANGED <<now, script>>

(***************************************************************************)
(* The requests the environment presents.                                  *)
(***************************************************************************)
AdminCandidates == Keys \cup {ZeroAddress}
OtherNonce(n) == (n + 1) % (MaxNonce + 1)

\* the signature of the holder of key k over the prefixed digest h
GoodSignature(k, h) == Sign(k, toEthSignedMessageHash(h))
GoodSignatures(h) == {GoodSignature(k, h) : k \in Keys}

\* the digest of an EIP-7702 authorization (chain 1, account nonce 0)
AuthorizationDigest == delegate_messageHash(1, DelegatorAddr, 0)

\* the other signatures presented with a request whose digest is h: made over
\* the raw digest, over another request's digest (alt) or over an
\* authorization digest, and bytes that are no signature
OddSignatures(h, alt) ==
    {SigningKey_sign(k, h) : k \in Keys}
      \cup {GoodSignature(k, alt) : k \in Keys}
      \cup {SigningKey_sign(k, AuthorizationDigest) : k \in Keys}
      \cup {MalformedSignature}

SeqsUpTo(S, n) == UNION {[1..k -> S] : k \in 0..n}

SignedAdminChange(a, n, d, s) ==
    [newAdmin |-> a, nonce |-> n, deadline |-> d, signature |-> s]

\* admin changes signed by a key holder, and unexpired ones otherwise signed
SignedAdminChanges ==
    UNION {{SignedAdminChange(a, n, d, s) :
              s \in GoodSignatures(getAdminChangeHash(a, n, d))} :
           <<a, n, d>> \in AdminCandidates \X Nonces \X Times}
    \cup
    UNION {{SignedAdminChange(a, n, MaxTime, s) :
              s \in OddSignatures(getAdminChangeHash(a, n, MaxTime),
                                  getAdminChangeHash(a, OtherNonce(n), MaxTime))} :
           <<a, n>> \in Keys \X Nonces}

SignedCallerUpdate(c, f, n, d, s) ==
    [callers |-> c, isAdding |-> f, nonce |-> n, deadline |-> d, signature |-> s]

\* caller lists: up to two callers (two: after alice) with as many flags, and
\* lists whose flags are one short or one long
CallerLists ==
    {cf \in SeqsUpTo(Keys, 2) \X SeqsUpTo(BOOLEAN, 2) :
        \/ Len(cf[1]) = Len(cf[2]) /\ (Len(cf[1]) = 2 => cf[1][1] = "alice")
        \/ Len(cf[1]) = 1 /\ Len(cf[2]) = 0
        \/ Len(cf[1]) = 0 /\ cf[2] = <<TRUE>>}

\* caller updates signed by a key holder: every list with the latest
\* deadline, bob's addition (with and without its flag) with every deadline;
\* and unexpired ones otherwise signed
SignedCallerUpdates ==
    UNION {{SignedCallerUpdate(cf[1], cf[2], n, MaxTime, s) :
              s \in GoodSignatures(getCallerUpdateHash(cf[1], cf[2], n, MaxTime))} :
           <<cf, n>> \in CallerLists \X Nonces}
    \cup
    UNION {{SignedCallerUpdate(<<"bob">>, f, n, d, s) :
              s \in GoodSignatures(getCallerUpdateHash(<<"bob">>, f, n, d))} :
           <<f, n, d>> \in {<<TRUE>>, <<>>} \X Nonces \X Times}
    \cup
    UNION {{SignedCallerUpdate(<<k>>, <<TRUE>>, n, MaxTime, s) :
              s \in OddSignatures(getCallerUpdateHash(<<k>>, <<TRUE>>, n, MaxTime),
                                  getCallerUpdateHash(<<k>>, <<TRUE>>, OtherNonce(n), MaxTime))} :
           <<k, n>> \in Keys \X Nonces}

Call(target, value, data) == [target |-> target, value |-> value, data |-> data]

\* calls to the token, and the payment of one unit to the recipient
TokenCalls ==
    {Call(Token, 0, [fn |-> f]) : f \in {"transfer", "transferFalse", "balanceOf", "revert"}}
Payment == Call(Recipient, 1, [fn |-> ""])
Calls == TokenCalls \cup {Payment}

SignedBatch(c, n, d, s) ==
    [calls |-> c, nonce |-> n, deadline |-> d, signature |-> s]

\* calls to the executor itself, carrying requests signed by a key holder
SelfCalls ==
    {Call(This, 0, [fn |-> "setAdmin",
                    arg |-> SignedAdminChange(a, n, MaxTime,
                              GoodSignature(k, getAdminChangeHash(a, n, MaxTime)))]) :
        a \in Keys, n \in Nonces, k \in Keys}
    \cup
    {Call(This, 0, [fn |-> "updateCallers",
                    arg |-> SignedCallerUpdate(<<c>>, <<TRUE>>, n, MaxTime,
                              GoodSignature(k, getCallerUpdateHash(<<c>>, <<TRUE>>, n, MaxTime)))]) :
        c \in Keys, n \in Nonces, k \in Keys}
    \cup
    {Call(This, 0, [fn |-> "executeBatch",
                    arg |-> SignedBatch(<<>>, n, MaxTime,
                              GoodSignature(k, getBatchHash(<<>>, n, MaxTime)))]) :
        n \in Nonces, k \in Keys}
    \cup
    {Call(This, 0, [fn |-> "initialize", arg |-> [_admin |-> "bob"]])}
    \cup
    \* a request whose own deadline has passed
    {Call(This, 0, [fn |-> "setAdmin",
                    arg |-> SignedAdminChange("bob", n, 0,
                              GoodSignature(k, getAdminChangeHash("bob", n, 0)))]) :
        n \in Nonces, k \in Keys}
    \cup
    \* calls to the getters of admin, allowedCallers and usedNonces and to a
    \* hash function
    {Call(This, 0, [fn |-> "admin"]),
     Call(This, 0, [fn |-> "allowedCallers", arg |-> "bob"]),
     Call(This, 0, [fn |-> "getBatchHash",
                    arg |-> [calls |-> <<>>, nonce |-> 0, deadline |-> MaxTime]])}
    \cup
    {Call(This, 0, [fn |-> "usedNonces", arg |-> n]) : n \in Nonces}
    \cup
    \* requests that come with value: one unit, which the executor holds, and
    \* two units, which it does not
    {Call(This, 1, [fn |-> "setAdmin",
                    arg |-> SignedAdminChange("bob", 1, MaxTime,
                              GoodSignature("alice", getAdminChangeHash("bob", 1, MaxTime)))]),
     Call(This, 1, [fn |-> "updateCallers",
                    arg |-> SignedCallerUpdate(<<"bob">>, <<TRUE>>, 1, MaxTime,
                              GoodSignature("alice",
                                  getCallerUpdateHash(<<"bob">>, <<TRUE>>, 1, MaxTime)))])}
    \cup
    {Call(This, v, [fn |-> "executeBatch",
                    arg |-> SignedBatch(<<>>, 1, MaxTime,
                              GoodSignature("bob", getBatchHash(<<>>, 1, MaxTime)))]) :
        v \in {1, 2}}

\* a call to the executor itself, alone or followed by a reverting call
ReentrantBatches ==
    {<<c>> : c \in SelfCalls}
      \cup {<<c, Call(Token, 0, [fn |-> "revert"])>> : c \in SelfCalls}

\* batches signed by a key holder: no call, one call to the token or a
\* re-entering batch with the latest deadline, no call or one call to the
\* token with every deadline; and unexpired token transfers otherwise signed
SignedBatches ==
    UNION {{SignedBatch(c, n, MaxTime, s) :
              s \in GoodSignatures(getBatchHash(c, n, MaxTime))} :
           <<c, n>> \in (SeqsUpTo(TokenCalls, 1) \cup ReentrantBatches) \X Nonces}
    \cup
    UNION {{SignedBatch(c, n, d, s) :
              s \in GoodSignatures(getBatchHash(c, n, d))} :
           <<c, n, d>> \in SeqsUpTo(TokenCalls, 1) \X Nonces \X Times}
    \cup
    UNION {{SignedBatch(c, n, MaxTime, s) :
              s \in OddSignatures(getBatchHash(c, n, MaxTime),
                                  getBatchHash(c, OtherNonce(n), MaxTime))} :
           <<c, n>> \in {<<Call(Token, 0, [fn |-> "transfer"])>>} \X Nonces}

\* batches of up to MaxBatchLen calls to the token and the recipient, signed
\* by a key holder, with the latest deadline
SignedForwardBatches ==
    UNION {{SignedBatch(c, n, MaxTime, s) :
              s \in GoodSignatures(getBatchHash(c, n, MaxTime))} :
           <<c, n>> \in SeqsUpTo(Calls, MaxBatchLen) \X Nonces}

TotalFunds == balance[This] + balance[Recipient] + balance[Token]

(***************************************************************************)
(* Actions: one per entry point, the hand-over of an outcome, and the      *)
(* passing of time.                                                        *)
(***************************************************************************)
Initialize ==
    /\ Idle
    /\ \E a \in AdminCandidates, sender \in Invokers :
        Commit(initialize(World, a),
               Invocation("initialize", [_admin |-> a], [sender |-> sender, value |-> 0]))

SetAdmin ==
    /\ Idle
    /\ \E signedChange \in SignedAdminChanges, sender \in Invokers :
        Commit(setAdmin(World, now, signedChange),
               Invocation("setAdmin", signedChange, [sender |-> sender, value |-> 0]))

UpdateCallers ==
    /\ Idle
    /\ \E signedUpdate \in SignedCallerUpdates, sender \in Invokers :
        Commit(updateCallers(World, now, signedUpdate),
               Invocation("updateCallers", signedUpdate, [sender |-> sender, value |-> 0]))

\* executeBatch sent without value
ExecuteBatch ==
    /\ Idle
    /\ \E signedBatch \in SignedBatches, sender \in Invokers :
        Commit(executeBatch(World, now, [sender |-> sender, value |-> 0], signedBatch),
               Invocation("executeBatch", signedBatch, [sender |-> sender, value |-> 0]))

\* executeBatch sent with or without value
ForwardBatch ==
    /\ Idle
    /\ \E signedBatch \in SignedForwardBatches, sender \in Invokers, value \in {0, 1} :
        /\ TotalFunds + value <= MaxFunds
        /\ Commit(executeBatch(World, now, [sender |-> sender, value |-> value],
                               signedBatch),
                  Invocation("executeBatch", signedBatch,
                             [sender |-> sender, value |-> value]))

\* the invoker takes the outcome of its invocation
Return ==
    /\ ~Idle
    /\ last' = NoInvocation
    /\ UNCHANGED <<storage, ledger, now, script>>

Tick ==
    /\ Idle
    /\ now < MaxTime
    /\ now' = now + 1
    /\ UNCHANGED <<storage, ledger, last, script>>

(***************************************************************************)
(* Spec: the executor from its deployment on, under requests of every      *)
(* kind.                                                                   *)
(***************************************************************************)
Next ==
    \/ Initialize
    \/ SetAdmin
    \/ UpdateCallers
    \/ ExecuteBatch
    \/ Return
    \/ Tick

Spec == Init /\ [][Next]_vars

(***************************************************************************)
(* SpecForward: the forwarding of batches of several calls, with value,    *)
(* by an executor that alice initialized and to which her updateCallers    *)
(* (nonce 0) added bob.                                                    *)
(***************************************************************************)
InitForward ==
    /\ admin = "alice"
    /\ allowedCallers = {"bob"}
    /\ usedNonces = {0}
    /\ initialized = TRUE
    /\ balance = [a \in Accounts |-> IF a = This THEN 1 ELSE 0]
    /\ tokenState = {}
    /\ now = 1
    /\ last = NoInvocation
    /\ script = NoScript

NextForward ==
    \/ ForwardBatch
    \/ Return
    \/ Tick

SpecForward == InitForward /\ [][NextForward]_vars

(***************************************************************************)
(* SpecSelfSigning: the self-signing variant from its deployment on.  The  *)
(* account's own key signs as This.                                        *)
(***************************************************************************)
SelfSigningKeys == Keys \cup {This}

SelfSigningAdminChanges ==
    UNION {{SignedAdminChange(a, n, d, GoodSignature(k, getAdminChangeHash(a, n, d))) :
              k \in SelfSigningKeys} :
           <<a, n, d>> \in Keys \X Nonces \X Times}

\* calls to the account itself: requests to the functions the variant has,
\* signed by the admin-to-be alice, by bob or by the account, and a request
\* to updateCallers, which it has not
SelfSigningSelfCalls ==
    {Call(This, 0, [fn |-> "setAdmin",
                    arg |-> SignedAdminChange("bob", n, MaxTime,
                              GoodSignature(k, getAdminChangeHash("bob", n, MaxTime)))]) :
        n \in Nonces, k \in {"alice", This}}
    \cup
    {Call(This, 0, [fn |-> "executeBatch",
                    arg |-> SignedBatch(<<>>, n, MaxTime,
                              GoodSignature(k, getBatchHash(<<>>, n, MaxTime)))]) :
        n \in Nonces, k \in {"bob", This}}
    \cup
    {Call(This, 0, [fn |-> "updateCallers",
                    arg |-> SignedCallerUpdate(<<"bob">>, <<TRUE>>, 1, MaxTime,
                              GoodSignature("alice",
                                  getCallerUpdateHash(<<"bob">>, <<TRUE>>, 1, MaxTime)))]),
     Call(This, 0, [fn |-> "initialize", arg |-> [_admin |-> "bob"]]),
     \* calls to the getters and to a hash function
     Call(This, 0, [fn |-> "admin"]),
     Call(This, 0, [fn |-> "usedNonces", arg |-> 0]),
     Call(This, 0, [fn |-> "getAdminChangeHash",
                    arg |-> [newAdmin |-> "bob", nonce |-> 0, deadline |-> MaxTime]])}

SelfSigningBatches ==
    UNION {{SignedBatch(c, n, d, GoodSignature(k, getBatchHash(c, n, d))) :
              k \in SelfSigningKeys} :
           <<c, n, d>> \in SeqsUpTo(Calls \cup SelfSigningSelfCalls, 1) \X Nonces \X Times}

SelfSigningInitialize ==
    /\ Idle
    /\ \E a \in AdminCandidates \cup {This}, sender \in Invokers :
        Commit(selfSigning_initialize(World, a),
               Invocation("initialize", [_admin |-> a], [sender |-> sender, value |-> 0]))

SelfSigningSetAdmin ==
    /\ Idle
    /\ \E signedChange \in SelfSigningAdminChanges, sender \in Invokers :
        Commit(selfSigning_setAdmin(World, now, signedChange),
               Invocation("setAdmin", signedChange, [sender |-> sender, value |-> 0]))

SelfSigningExecuteBatch ==
    /\ Idle
    /\ \E signedBatch \in SelfSigningBatches, sender \in Invokers :
        Commit(selfSigning_executeBatch(World, now, [sender |-> sender, value |-> 0],
                                        signedBatch),
               Invocation("executeBatch", signedBatch, [sender |-> sender, value |-> 0]))

NextSelfSigning ==
    \/ SelfSigningInitialize
    \/ SelfSigningSetAdmin
    \/ SelfSigningExecuteBatch
    \/ Return
    \/ Tick

SpecSelfSigning == Init /\ [][NextSelfSigning]_vars

(***************************************************************************)
(* SpecUnsafe: the ungated BatchDelegator, invoked by anyone.              *)
(***************************************************************************)
UnsafeInvokers == {"relayer", "mallory"}

\* the calls sent to the ungated contract: those to the token, calls to the
\* recipient carrying nothing, one unit and two, and calls to the account
\* itself: to its executeBatch, and to initialize, which it has not
UnsafeCalls ==
    Calls
    \cup {Call(Recipient, 0, [fn |-> ""]), Call(Recipient, 2, [fn |-> ""])}
    \cup {Call(This, 0, [fn |-> "executeBatch((address,uint256,bytes)[])",
                         values |-> <<calls>>]) : calls \in {<<>>, <<Payment>>}}
    \cup {Call(This, 0, [fn |-> "initialize", arg |-> [_admin |-> "bob"]])}

UnsafeExecuteBatch ==
    /\ Idle
    /\ \E calls \in SeqsUpTo(UnsafeCalls, MaxBatchLen), sender \in UnsafeInvokers,
          value \in {0, 1} :
        /\ TotalFunds + value <= MaxFunds
        /\ Commit(unsafe_executeBatch(World, now, [sender |-> sender, value |-> value],
                                      calls),
                  Invocation("executeBatch", [calls |-> calls],
                             [sender |-> sender, value |-> value]))

NextUnsafe ==
    \/ UnsafeExecuteBatch
    \/ Return

SpecUnsafe == Init /\ [][NextUnsafe]_vars

(***************************************************************************)
(* SpecScripts: the off-chain scripts.  A run of main is a process that    *)
(* stops at each await; script.pc is the call it is waiting for, and each  *)
(* action is that call answering (or failing) together with the code that  *)
(* runs up to the next await.  The authorizer is the account that          *)
(* delegates (This); the relayer pays for the transaction.  The gas fields *)
(* of the transaction are fixed numbers and are left out.                  *)
(***************************************************************************)
ChainIds == 0..MaxChainId
AuthNonces == 0..MaxAuthNonce
DelegatorAddrs == {DelegatorAddr, ZeroDelegatorAddr}
ScriptNames == {"delegate", "delegate_and_execute", "delegate_and_execute_2"}

\* Interface.encodeFunctionData(fragment, values)
encodeFunctionData(fragment, values) == [fn |-> fragment, values |-> values]
\* data: '0x'
EmptyData == [fn |-> "", values |-> <<>>]

\* an authorization that always names account nonce 0
AuthorizationNonceZero(chainId, delegatorAddr, authNonce, signature) ==
    [chainId |-> chainId, address |-> delegatorAddr, nonce |-> 0,
     signature |-> signature]

Authorization(chainId, delegatorAddr, authNonce, signature) ==
    [chainId |-> chainId, address |-> delegatorAddr, nonce |-> authNonce,
     signature |-> signature]

\* ERC20_RECIPIENT_2_ADDRESS, the second recipient of the second version of
\* delegate_and_execute.ts
Recipient2 == "recipient2"

\* the two ERC-20 transfers of the first version of delegate_and_execute.ts:
\* one recipient, the amounts 10^18 ("amount") and 10^17 ("amount2")
ScriptCalls ==
    <<Call(Token, 0, encodeFunctionData("transfer(address,uint256)", <<Recipient, "amount">>)),
      Call(Token, 0, encodeFunctionData("transfer(address,uint256)", <<Recipient, "amount2">>))>>

\* the two ERC-20 transfers of the second version: two recipients, the one
\* amount 10^18
ScriptCalls2 ==
    <<Call(Token, 0, encodeFunctionData("transfer(address,uint256)", <<Recipient, "amount">>)),
      Call(Token, 0, encodeFunctionData("transfer(address,uint256)", <<Recipient2, "amount">>))>>

\* the transaction object of the scripts
Transaction(chainId, relayerNonce, to, data, authorization) ==
    [type |-> 4, chainId |-> chainId, nonce |-> relayerNonce, to |-> to, value |-> 0,
     data |-> data, accessList |-> <<>>, authorizationList |-> <<authorization>>]

\* a run that starts over when its awaited call, or the code after it, throws
AfterRejectRetries(s) == [pc |-> "getNetwork", steps |-> <<"getNetwork">>] @@ s

\* the run after its awaited call, or the code after it, has thrown: main's
\* promise is rejected
AfterReject(s) == [pc |-> "caught"] @@ s

\* the run makes the call named step and awaits it at p
Step(s, step, p) == [pc |-> p, steps |-> Append(s.steps, step)] @@ s

Running(p) == script # NoScript /\ script.pc = p

\* lines 14-31 of delegate.ts (19-35 and 220-237 of delegate_and_execute.ts):
\* the provider and the wallets are set up (new Wallet throws on a missing
\* or malformed key) and getNetwork is called
ScriptStart ==
    /\ script = NoScript
    /\ \E name \in ScriptNames, delegatorAddr \in DelegatorAddrs, thrown \in BOOLEAN :
          LET s == [name |-> name, pc |-> "start", steps |-> <<>>, sent |-> 0,
                    delegatorAddr |-> delegatorAddr]
          IN  script' = IF thrown THEN AfterReject(s)
                        ELSE Step(s, "getNetwork", "getNetwork")
    /\ UNCHANGED <<storage, ledger, now, last>>

\* const chainId = (await provider.getNetwork()).chainId: the network has
\* answered, getTransactionCount(authorizer.address) is called
GetNetwork ==
    /\ Running("getNetwork")
    /\ \E chainId \in ChainIds :
          script' = [chainId |-> chainId]
                      @@ Step(script, "getTransactionCount(authorizer)", "getAuthNonce")
    /\ UNCHANGED <<storage, ledger, now, last>>

\* const authNonce = await provider.getTransactionCount(authorizer.address, 'pending'):
\* the count has come, getTransactionCount(relayer.address) is called
GetAuthNonce ==
    /\ Running("getAuthNonce")
    /\ \E authNonce \in AuthNonces :
          script' = [authNonce |-> authNonce]
                      @@ Step(script, "getTransactionCount(relayer)", "getRelayerNonce")
    /\ UNCHANGED <<storage, ledger, now, last>>

\* const relayerNonce = await provider.getTransactionCount(relayer.address, 'pending')
\* and the code up to the next await (delegate.ts 33-58, delegate_and_execute.ts
\* 37-72 and 239-264): the digest is computed (encodeRlp throws on a missing
\* or malformed DELEGATOR_ADDRESS) and SigningKey.sign is called on it; the
\* run awaits the signature
GetRelayerNonce ==
    /\ Running("getRelayerNonce")
    /\ \E relayerNonce \in AuthNonces, thrown \in BOOLEAN :
          LET s == [relayerNonce |-> relayerNonce] @@ script
              messageHash ==
                CASE s.name = "delegate" ->
                       delegate_messageHash(s.chainId, s.delegatorAddr, s.authNonce)
                  [] s.name = "delegate_and_execute" ->
                       delegateAndExecute_messageHash(s.chainId, s.delegatorAddr,
                                                      s.authNonce)
                  [] s.name = "delegate_and_execute_2" ->
                       delegateAndExecute2_messageHash(s.chainId, s.delegatorAddr,
                                                       s.authNonce)
              \* the first version of delegate_and_execute.ts also computes hash
              hashes == IF s.name = "delegate_and_execute"
                        THEN [messageHash |-> messageHash,
                              hash |-> delegateAndExecute_hash(s.chainId, s.delegatorAddr,
                                                               s.authNonce)]
                        ELSE [messageHash |-> messageHash]
              signature == SigningKey_sign(This, messageHash)
          IN  script' = IF thrown THEN AfterReject(s)
                        ELSE [signature |-> signature] @@ hashes
                               @@ Step(s, "SigningKey.sign", "sign")
    /\ UNCHANGED <<storage, ledger, now, last>>

\* main of delegate.ts, lines 58-92: the signature is there, the
\* authorization and the transaction are built and relayer.signTransaction
\* is called
RunDelegate ==
    /\ Running("sign")
    /\ script.name = "delegate"
    /\ LET authorization == Authorization(script.chainId, script.delegatorAddr,
                                          script.authNonce, script.signature)
           tx == Transaction(script.chainId, script.relayerNonce, ZeroAddress, EmptyData,
                             authorization)
       IN  script' = [tx |-> tx] @@ Step(script, "signTransaction", "signTransaction")
    /\ UNCHANGED <<storage, ledger, now, last>>

\* main of delegate_and_execute.ts, first version, lines 72-141: the
\* signature is there, the authorization is built, the calls are encoded
\* (encodeFunctionData throws on a missing or malformed recipient or token
\* address), the transaction is built and relayer.signTransaction is called
RunDelegateAndExecute ==
    /\ Running("sign")
    /\ script.name = "delegate_and_execute"
    /\ \E thrown \in BOOLEAN :
          LET authorization == Authorization(script.chainId, script.delegatorAddr,
                                             script.authNonce, script.signature)
              batchData == encodeFunctionData("executeBatch((address,uint256,bytes)[])",
                                              <<ScriptCalls>>)
              tx == Transaction(script.chainId, script.relayerNonce, This, batchData,
                                authorization)
          IN  script' = IF thrown THEN AfterReject(script)
                        ELSE [tx |-> tx]
                               @@ Step(script, "signTransaction", "signTransaction")
    /\ UNCHANGED <<storage, ledger, now, last>>

\* main of delegate_and_execute.ts, second version, lines 264-335
RunDelegateAndExecute2 ==
    /\ Running("sign")
    /\ script.name = "delegate_and_execute_2"
    /\ \E thrown \in BOOLEAN :
          LET authorization == Authorization(script.chainId, script.delegatorAddr,
                                             script.authNonce, script.signature)
              batchData == encodeFunctionData("executeBatch((address,uint256,bytes)[])",
                                              <<ScriptCalls2>>)
              tx == Transaction(script.chainId, script.relayerNonce, This, batchData,
                                authorization)
          IN  script' = IF thrown THEN AfterReject(script)
                        ELSE [tx |-> tx]
                               @@ Step(script, "signTransaction", "signTransaction")
    /\ UNCHANGED <<storage, ledger, now, last>>

\* const raw = await relayer.signTransaction(tx): the signed transaction is
\* there and provider.send('eth_sendRawTransaction', [raw]) is called: the
\* request goes out
SignTransaction ==
    /\ Running("signTransaction")
    /\ LET raw == Sign("relayer", script.tx)
       IN  script' = [raw |-> raw, sent |-> script.sent + 1, broadcast |-> raw]
                       @@ Step(script, "eth_sendRawTransaction", "send")
    /\ UNCHANGED <<storage, ledger, now, last>>

\* const txHash = await provider.send('eth_sendRawTransaction', [raw]): the
\* node answers with the hash, and main returns, or with an error
SendRawTransaction ==
    /\ Running("send")
    /\ \E accepted \in BOOLEAN :
          script' = IF accepted THEN [pc |-> "done"] @@ script ELSE AfterReject(script)
    /\ UNCHANGED <<storage, ledger, now, last>>

\* the call main is waiting for fails (no connection, an error answer, a
\* transaction the wallet refuses to sign): main's promise is rejected
Reject ==
    /\ script # NoScript
    /\ script.pc \in {"getNetwork", "getAuthNonce", "getRelayerNonce", "signTransaction"}
    /\ script' = AfterReject(script)
    /\ UNCHANGED <<storage, ledger, now, last>>

\* main().catch(err => { console.error(err); process.exit(1) })
Catch ==
    /\ Running("caught")
    /\ script' = [pc |-> "exited", status |-> 1] @@ script
    /\ UNCHANGED <<storage, ledger, now, last>>

\* main has returned and nothing is pending: the process ends
ScriptExit ==
    /\ Running("done")
    /\ script' = [pc |-> "exited", status |-> 0] @@ script
    /\ UNCHANGED <<storage, ledger, now, last>>

NextScripts ==
    \/ ScriptStart
    \/ GetNetwork
    \/ GetAuthNonce
    \/ GetRelayerNonce
    \/ RunDelegate
    \/ RunDelegateAndExecute
    \/ RunDelegateAndExecute2
    \/ SignTransaction
    \/ SendRawTransaction
    \/ Reject
    \/ Catch
    \/ ScriptExit

SpecScripts == Init /\ [][NextScripts]_vars

(***************************************************************************)
(* Vocabulary of the properties.  In an action formula last' is the        *)
(* invocation made by the step and the unprimed variables are the state it *)
(* was made in.                                                            *)
(***************************************************************************)
\* the digest the request of invocation inv has to be signed over
DigestOf(inv) ==
    CASE inv.op = "setAdmin" ->
           getAdminChangeHash(inv.req.newAdmin, inv.req.nonce, inv.req.deadline)
      [] inv.op = "updateCallers" ->
           getCallerUpdateHash(inv.req.callers, inv.req.isAdding, inv.req.nonce,
                               inv.req.deadline)
      [] inv.op = "executeBatch" ->
           getBatchHash(inv.req.calls, inv.req.nonce, inv.req.deadline)

\* the request carries the signature of k's holder over its prefixed digest
SignedBy(inv, k) == inv.req.signature = GoodSignature(k, DigestOf(inv))

\* the request is signed by the party its kind asks for
Authorized(inv) ==
    IF inv.op = "executeBatch"
    THEN \E k \in Keys \cap allowedCallers : SignedBy(inv, k)
    ELSE SignedBy(inv, admin)

LengthsMatch(inv) ==
    inv.op = "updateCallers" => Len(inv.req.callers) = Len(inv.req.isAdding)

CallFailures == {"BatchDelegator: call failed", "BatchDelegator: call returned false"}
ForwardFailures == CallFailures \cup {"abi.decode"}
\* the reverts that follow usedNonces[nonce] = true: of ECDSA.recover, of the
\* signer test and of the forwarding loop
AfterMarkingFailures ==
    {"ECDSAInvalidSignature", "InvalidSignature", "NotAllowedCaller"} \cup ForwardFailures
NamedFailures ==
    {"DeadlineExpired", "NonceAlreadyUsed", "InvalidSignature", "NotAllowedCaller",
     "ArrayLengthMismatch"} \cup CallFailures

\* the outcomes a request that passed every check of its entry point can end
\* in: success, or for a batch with a call other than a token transfer, the
\* failure of the forwarding
Outcomes(inv) ==
    IF /\ inv.op = "executeBatch"
       /\ \E i \in 1..Len(inv.req.calls) :
             inv.req.calls[i] # [target |-> Token, value |-> 0, data |-> [fn |-> "transfer"]]
    THEN {OK} \cup ForwardFailures
    ELSE {OK}

\* the indices of the calls of a batch that go to the executor's gated entry points
SelfCallsOf(calls) ==
    {i \in 1..Len(calls) : calls[i].target = This /\ calls[i].data.fn \in Gated}

\* the nonces presented by an invocation and by the requests its calls deliver
NoncesPresented(inv) ==
    {inv.req.nonce} \cup
      (IF inv.op = "executeBatch"
       THEN {inv.req.calls[i].data.arg.nonce : i \in SelfCallsOf(inv.req.calls)}
       ELSE {})

\* the outcomes, in the current state, of the requests of each kind that
\* present nonce n with the latest deadline, signed by each key holder
ProbeErrors(n) ==
    {setAdmin(World, now,
              SignedAdminChange("alice", n, MaxTime,
                  GoodSignature(k, getAdminChangeHash("alice", n, MaxTime)))).err :
        k \in Keys}
    \cup
    {updateCallers(World, now,
                   SignedCallerUpdate(<<"bob">>, <<TRUE>>, n, MaxTime,
                       GoodSignature(k, getCallerUpdateHash(<<"bob">>, <<TRUE>>, n, MaxTime)))).err :
        k \in Keys}
    \cup
    {executeBatch(World, now, [sender |-> "relayer", value |-> 0],
                  SignedBatch(<<>>, n, MaxTime,
                      GoodSignature(k, getBatchHash(<<>>, n, MaxTime)))).err :
        k \in Keys}

(***************************************************************************)
(* Replay protection.                                                      *)
(***************************************************************************)
\* C1: once an invocation of any gated kind has succeeded with nonce n, every
\* later invocation of any gated kind that presents n before its deadline
\* (with arrays of equal length) fails with NonceAlreadyUsed: a success marks
\* its nonce, a mark stays, and a marked nonce is refused whatever the kind,
\* payload and signer of the request.
C1_NonceSingleUse ==
    [][ /\ (last'.op \in Gated /\ last'.err = OK) => last'.req.nonce \in usedNonces'
        /\ usedNonces \subseteq usedNonces'
        /\ ( /\ last'.op \in Gated
             /\ last'.req.nonce \in usedNonces
             /\ LengthsMatch(last')
             /\ last'.req.deadline >= now )
           => last'.err = "NonceAlreadyUsed" ]_vars

\* an unexpired setAdmin signed by the admin is refused for presenting the one
\* nonce that is marked, on an executor whose token transfer shows that an
\* executeBatch has succeeded
C1_Witness ==
    /\ last.op = "setAdmin"
    /\ last.err = "NonceAlreadyUsed"
    /\ SignedBy(last, admin)
    /\ last.req.deadline >= now
    /\ last.req.nonce \in usedNonces
    /\ tokenState # {}

\* C7 as stated: after an invocation presenting nonce n failed past the nonce
\* check (malformed signature, wrong signer, signer not allowed, or a forwarded
\* call failing, returning false or returning data that is no bool), an
\* invocation presenting n fails with NonceAlreadyUsed.
C7_NonceBurntByFailedAttempt ==
    (last.op \in Gated /\ last.err \in AfterMarkingFailures)
      => ProbeErrors(last.req.nonce) \subseteq {"NonceAlreadyUsed"}

\* C7 amended: after such a failed invocation its nonce is still unused, and
\* no invocation presenting it next is refused with NonceAlreadyUsed.
C7_NonceUnusedAfterFailedAttempt ==
    (last.op \in Gated /\ last.err \in AfterMarkingFailures)
      => /\ last.req.nonce \notin usedNonces
         /\ "NonceAlreadyUsed" \notin ProbeErrors(last.req.nonce)

\* a setAdmin failed on its signature and a setAdmin presenting the same
\* nonce would now succeed
C7_Witness ==
    /\ last.op = "setAdmin"
    /\ last.err = "InvalidSignature"
    /\ \E r \in SignedAdminChanges :
          r.nonce = last.req.nonce /\ setAdmin(World, now, r).err = OK

\* C9: a marked nonce is never unmarked; a successful gated invocation adds
\* exactly the nonces presented by it and by the requests its forwarded calls
\* delivered to the executor, one per successful invocation and none of them
\* used before; a failed invocation and initialize add none.
C9_UsedNoncesMonotone ==
    [][ /\ usedNonces \subseteq usedNonces'
        /\ (last'.op \in Gated /\ last'.err = OK)
             => /\ usedNonces' = usedNonces \cup NoncesPresented(last')
                /\ NoncesPresented(last') \cap usedNonces = {}
                /\ Cardinality(NoncesPresented(last')) =
                     1 + (IF last'.op = "executeBatch"
                          THEN Cardinality(SelfCallsOf(last'.req.calls)) ELSE 0)
        /\ (last'.op \in Gated /\ last'.err # OK) => usedNonces' = usedNonces
        /\ last'.op = "initialize" => usedNonces' = usedNonces ]_vars

\* a batch that re-entered setAdmin succeeded: two nonces were added, while
\* another nonce marked earlier stays marked
C9_Witness ==
    /\ last.op = "executeBatch"
    /\ last.err = OK
    /\ \E i \in SelfCallsOf(last.req.calls) : last.req.calls[i].data.fn = "setAdmin"
    /\ NoncesPresented(last) \subseteq usedNonces
    /\ Cardinality(NoncesPresented(last)) = 2

(***************************************************************************)
(* Atomicity.                                                              *)
(***************************************************************************)
\* C2: when a forwarded call of executeBatch fails or returns false, nothing of
\* the batch is applied: balances and the token's storage, admin and
\* allowedCallers are as before, the batch's nonce is unused, no event is left.
C2_AtomicBatchAbort ==
    [][ (last'.op = "executeBatch" /\ last'.err \in CallFailures)
        => /\ UNCHANGED <<storage, ledger>>
           /\ last'.req.nonce \notin usedNonces'
           /\ last'.events = <<>> ]_vars

\* a batch of three whose second call returned false, after its first call
\* had moved value and with a call still to come
C2_Witness ==
    /\ last.op = "executeBatch"
    /\ last.err = "BatchDelegator: call returned false"
    /\ Len(last.req.calls) = 3
    /\ last.req.calls[1] = Call(Recipient, 1, [fn |-> ""])
    /\ last.req.calls[2] = Call(Token, 0, [fn |-> "transferFalse"])
    /\ last.req.calls[3] = Call(Token, 0, [fn |-> "transfer"])
    /\ balance[This] + last.msg.value >= 1

\* C8: a gated invocation that fails with one of the named conditions leaves
\* admin, allowedCallers, usedNonces and initialized as they were and no event.
C8_FailedRequestsChangeNothing ==
    [][ (last'.op \in Gated /\ last'.err \in NamedFailures)
        => /\ UNCHANGED storage
           /\ last'.events = <<>> ]_vars

\* a batch whose first call re-entered updateCallers with the admin's
\* signature and a fresh nonce, and whose second call reverted
C8_Witness ==
    /\ last.op = "executeBatch"
    /\ last.err = "BatchDelegator: call failed"
    /\ Len(last.req.calls) = 2
    /\ last.req.calls[1].target = This
    /\ last.req.calls[1].data.fn = "updateCallers"
    /\ last.req.calls[1].data.arg.signature.key = admin
    /\ last.req.calls[1].data.arg.nonce \notin usedNonces \cup {last.req.nonce}
    /\ last.req.calls[1].data.arg.callers[1] \notin allowedCallers
    /\ last.req.calls[2] = Call(Token, 0, [fn |-> "revert"])

(***************************************************************************)
(* Authorization.                                                          *)
(***************************************************************************)
\* the update lists k and the flag of k's last entry is true
Adds(req, k) ==
    \E i \in 1..Len(req.callers) :
        /\ req.callers[i] = k
        /\ req.isAdding[i]
        /\ \A j \in (i + 1)..Len(req.callers) : req.callers[j] # k

\* C3: an unexpired executeBatch with an unused nonce signed by a key that is
\* not an allowed caller fails with NotAllowedCaller; a successful updateCallers
\* signed by the admin that adds the key makes it an allowed caller; and an
\* unexpired executeBatch with an unused nonce signed by an allowed caller
\* succeeds (when it forwards anything but token transfers, unless the
\* forwarding fails).
C3_AllowListGating ==
    [][ /\ ( /\ last'.op = "executeBatch"
             /\ last'.req.deadline >= now
             /\ last'.req.nonce \notin usedNonces
             /\ \E k \in Keys \ allowedCallers : SignedBy(last', k) )
           => last'.err = "NotAllowedCaller"
        /\ \A k \in Keys :
             ( /\ last'.op = "updateCallers"
               /\ last'.err = OK
               /\ SignedBy(last', admin)
               /\ Adds(last'.req, k) )
             => k \in allowedCallers'
        /\ ( /\ last'.op = "executeBatch"
             /\ last'.req.deadline >= now
             /\ last'.req.nonce \notin usedNonces
             /\ \E k \in Keys \cap allowedCallers : SignedBy(last', k) )
           => last'.err \in Outcomes(last') ]_vars

\* bob's batch of one call succeeded under the admin alice, who is no allowed
\* caller herself
C3_Witness ==
    /\ last.op = "executeBatch"
    /\ last.err = OK
    /\ Len(last.req.calls) >= 1
    /\ SelfCallsOf(last.req.calls) = {}
    /\ SignedBy(last, "bob")
    /\ admin = "alice"
    /\ "alice" \notin allowedCallers

\* C4: an unexpired setAdmin with an unused nonce signed by a key other than
\* the admin fails with InvalidSignature and leaves admin unchanged; signed by
\* the admin it sets admin to newAdmin; and a setAdmin or updateCallers
\* succeeds only when signed by the admin of the state it is made in, so after
\* a rotation the previous admin's messages are refused.
C4_AdminRotation ==
    [][ /\ ( /\ last'.op = "setAdmin"
             /\ last'.req.deadline >= now
             /\ last'.req.nonce \notin usedNonces
             /\ \E k \in Keys \ {admin} : SignedBy(last', k) )
           => (last'.err = "InvalidSignature" /\ admin' = admin)
        /\ ( /\ last'.op = "setAdmin"
             /\ last'.req.deadline >= now
             /\ last'.req.nonce \notin usedNonces
             /\ SignedBy(last', admin) )
           => (last'.err = OK /\ admin' = last'.req.newAdmin)
        /\ (last'.op \in {"setAdmin", "updateCallers"} /\ last'.err = OK)
           => SignedBy(last', admin) ]_vars

\* alice has just handed the admin role to bob, and a setAdmin and an
\* updateCallers she signs with the unused nonce and an unexpired deadline
\* are refused
C4_Witness ==
    /\ last.op = "setAdmin"
    /\ last.err = OK
    /\ last.events = <<AdminChanged("alice", "bob")>>
    /\ admin = "bob"
    /\ OtherNonce(last.req.nonce) \notin usedNonces
    /\ LET n == OtherNonce(last.req.nonce)
       IN  /\ setAdmin(World, now,
                       SignedAdminChange("alice", n, MaxTime,
                           GoodSignature("alice",
                               getAdminChangeHash("alice", n, MaxTime)))).err
                = "InvalidSignature"
           /\ updateCallers(World, now,
                       SignedCallerUpdate(<<"alice">>, <<TRUE>>, n, MaxTime,
                           GoodSignature("alice",
                               getCallerUpdateHash(<<"alice">>, <<TRUE>>, n, MaxTime)))).err
                = "InvalidSignature"

\* C5: a request that is valid but for its deadline (arrays of equal length,
\* unused nonce, signed by the authorized party) succeeds when its deadline
\* equals the block time (an executeBatch that forwards anything but token
\* transfers, unless the forwarding fails) and
\* fails with DeadlineExpired when its deadline is the block time minus 1.
C5_DeadlineBoundary ==
    [][ ( /\ last'.op \in Gated
          /\ LengthsMatch(last')
          /\ last'.req.nonce \notin usedNonces
          /\ Authorized(last') )
        => /\ last'.req.deadline = now => last'.err \in Outcomes(last')
           /\ last'.req.deadline = now - 1 => last'.err = "DeadlineExpired" ]_vars

\* a setAdmin signed by the admin it replaced succeeded at its deadline
C5_Witness ==
    /\ last.op = "setAdmin"
    /\ last.err = OK
    /\ last.req.deadline = now
    /\ Len(last.events) = 1
    /\ SignedBy(last, last.events[1].previousAdmin)

\* C6: initialize on an uninitialized executor succeeds and sets admin to its
\* argument; on an initialized one it fails with AlreadyInitialized and leaves
\* admin, allowedCallers and usedNonces unchanged, also when a batch forwards
\* it; initialized never returns to false.
C6_InitializeOnce ==
    [][ /\ (last'.op = "initialize" /\ ~initialized)
           => (last'.err = OK /\ initialized' /\ admin' = last'.req._admin)
        /\ (last'.op = "initialize" /\ initialized)
           => (last'.err = "AlreadyInitialized"
               /\ UNCHANGED <<admin, allowedCallers, usedNonces>>)
        /\ ( /\ last'.op = "executeBatch"
             /\ \E i \in 1..Len(last'.req.calls) :
                   /\ last'.req.calls[i].target = This
                   /\ last'.req.calls[i].data.fn = "initialize" )
           => (last'.err # OK /\ UNCHANGED storage)
        /\ initialized => initialized' ]_vars

\* initialize was refused on an executor that has callers and used nonces
C6_Witness ==
    /\ last.op = "initialize"
    /\ last.err = "AlreadyInitialized"
    /\ last.req._admin # admin
    /\ allowedCallers # {}
    /\ usedNonces # {}

\* C10 as stated: the executor's storage changes only in an invocation that
\* carries a valid signature of the party authorized for it (an initialize
\* request carries no signature).
C10_AllOperationsRequireSignatures ==
    [][ storage' # storage => (last'.op \in Gated /\ Authorized(last')) ]_vars

(***************************************************************************)
(* The uninitialized executor, and the kinds of failure.                   *)
(***************************************************************************)
\* C11: while the executor is uninitialized, no setAdmin, updateCallers or
\* executeBatch succeeds, whatever its signature, nonce and deadline, and
\* the storage stays as deployed.
C11_UninitializedRejectsAll ==
    [][ (~initialized /\ last'.op \in Gated)
        => /\ last'.err # OK
           /\ UNCHANGED storage ]_vars

\* on the uninitialized executor an unexpired setAdmin, signed by a key holder
\* or carrying bytes that are no signature, was refused
C11_Witness ==
    /\ ~initialized
    /\ admin = ZeroAddress
    /\ last.op = "setAdmin"
    /\ last.req.deadline >= now
    /\ last.err \in {"InvalidSignature", "ECDSAInvalidSignature"}

\* C12 as stated: a failing executeBatch fails with DeadlineExpired,
\* NonceAlreadyUsed, NotAllowedCaller or the failure of a call, never with a
\* signature recovery error or a return-data decoding error.
C12_OnlyNamedBatchFailures ==
    [][ (last'.op = "executeBatch" /\ last'.err # OK)
        => last'.err \in {"DeadlineExpired", "NonceAlreadyUsed", "NotAllowedCaller"}
                           \cup CallFailures ]_vars

\* C12 amended: a failing executeBatch fails with DeadlineExpired,
\* NonceAlreadyUsed, NotAllowedCaller, the failure of a call, the recovery error
\* of ECDSA.recover or the decoding error of abi.decode, and changes nothing;
\* an unexpired batch with an unused nonce whose signature bytes are no
\* signature fails with the recovery error, and a batch that passed the checks
\* and calls the token's balanceOf fails with the decoding error.
C12_BatchFailureKinds ==
    [][ /\ (last'.op = "executeBatch" /\ last'.err # OK)
           => /\ last'.err \in {"DeadlineExpired", "NonceAlreadyUsed", "NotAllowedCaller",
                                "ECDSAInvalidSignature", "abi.decode"} \cup CallFailures
              /\ UNCHANGED <<storage, ledger>>
        /\ ( /\ last'.op = "executeBatch"
             /\ last'.req.deadline >= now
             /\ last'.req.nonce \notin usedNonces
             /\ last'.req.signature = MalformedSignature )
           => last'.err = "ECDSAInvalidSignature"
        /\ ( /\ last'.op = "executeBatch"
             /\ last'.req.deadline >= now
             /\ last'.req.nonce \notin usedNonces
             /\ Authorized(last')
             /\ last'.req.calls = <<Call(Token, 0, [fn |-> "balanceOf"])>> )
           => last'.err = "abi.decode" ]_vars

\* a batch signed by the allowed caller bob, whose call returned a number,
\* failed in the decoding
C12_Witness ==
    /\ last.op = "executeBatch"
    /\ last.err = "abi.decode"
    /\ SignedBy(last, "bob")
    /\ "bob" \in allowedCallers
    /\ last.req.nonce \notin usedNonces

\* C16 as stated: a batch that passed the checks of executeBatch and whose
\* calls all succeed and return true, nothing, or data that is no boolean (a
\* number other than 0 and 1) is not aborted.
C16_NonBooleanReturnDoesNotAbort ==
    [][ ( /\ last'.op = "executeBatch"
          /\ last'.req.deadline >= now
          /\ last'.req.nonce \notin usedNonces
          /\ Authorized(last')
          /\ \A i \in 1..Len(last'.req.calls) :
                /\ last'.req.calls[i].target = Token
                /\ last'.req.calls[i].data.fn \in {"transfer", "balanceOf"} )
        => last'.err = OK ]_vars

(***************************************************************************)
(* The effect of updateCallers.                                            *)
(***************************************************************************)
\* the flag of the last entry of the update that lists k
LastFlag(req, k) ==
    LET i == CHOOSE i \in 1..Len(req.callers) :
                /\ req.callers[i] = k
                /\ \A j \in (i + 1)..Len(req.callers) : req.callers[j] # k
    IN  req.isAdding[i]

\* C18: a successful updateCallers marks its nonce, leaves one CallerUpdated
\* per entry in index order, makes every listed address a member exactly when
\* the flag of its last entry is true, and leaves the membership of every
\* address it does not list, and the admin, unchanged.
C18_UpdateCallersEffect ==
    [][ (last'.op = "updateCallers" /\ last'.err = OK)
        => /\ last'.req.nonce \in usedNonces'
           /\ last'.events =
                [i \in 1..Len(last'.req.callers) |->
                    CallerUpdated(last'.req.callers[i], last'.req.isAdding[i])]
           /\ \A k \in Keys \cup {ZeroAddress, This, Stranger} :
                IF \E i \in 1..Len(last'.req.callers) : last'.req.callers[i] = k
                THEN (k \in allowedCallers') = LastFlag(last'.req, k)
                ELSE (k \in allowedCallers') = (k \in allowedCallers)
           /\ admin' = admin ]_vars

\* an update that lists alice twice, first added then removed, succeeded:
\* alice is no member, bob whom it does not list still is
C18_Witness ==
    /\ last.op = "updateCallers"
    /\ last.err = OK
    /\ last.req.callers = <<"alice", "alice">>
    /\ last.req.isAdding = <<TRUE, FALSE>>
    /\ "alice" \notin allowedCallers
    /\ "bob" \in allowedCallers

(***************************************************************************)
(* The forwarding of the calls of a batch.                                 *)
(***************************************************************************)
RECURSIVE SumValues(_)
SumValues(calls) ==
    IF calls = <<>> THEN 0 ELSE Head(calls).value + SumValues(Tail(calls))

\* how call i of a batch of calls to the token and the recipient ends when the
\* calls before it went through and the executor held funds at the start:
\* a call fails when it carries more than what the calls before it left; a
\* call to the recipient with its value at hand succeeds whatever its data;
\* the token takes no value and answers by the function called
CallError(calls, i, funds) ==
    LET c == calls[i]
        \* the recipient, an account without code, is the one to take value
        ToRecipient(x) == x.target = Recipient
        spent == SumValues(SelectSeq(SubSeq(calls, 1, i - 1), ToRecipient))
    IN  IF funds - spent < c.value THEN "BatchDelegator: call failed"
        ELSE IF c.target = Recipient THEN OK
        ELSE IF c.value > 0 THEN "BatchDelegator: call failed"
        ELSE CASE c.data.fn = "transfer" -> OK
               [] c.data.fn = "transferFalse" -> "BatchDelegator: call returned false"
               [] c.data.fn = "balanceOf" -> "abi.decode"
               [] OTHER -> "BatchDelegator: call failed"

\* the data call c returns when it goes through and the batch goes on: the
\* token's transfer and the executor's getters of allowedCallers and
\* usedNonces return true, the other calls that can be followed by a next one
\* return nothing
ReturnDataOf(c) ==
    IF \/ c.target = Token /\ c.data.fn = "transfer"
       \/ c.target = This /\ c.data.fn \in {"allowedCallers", "usedNonces"}
    THEN BoolBytes(TRUE) ELSE NoBytes

\* C17: the calls of a batch are forwarded in batch order, each after the one
\* before it has returned: a batch succeeds when every call goes through on
\* what the calls before it left, with as many results as calls, results[i]
\* the data calls[i] returned (also in the BatchExecuted event) and every
\* payment made; and it fails with the failure of the first call that fails.
C17_SequentialForwarding ==
    [][ LET calls == last'.req.calls
            funds == balance[This] + last'.msg.value
            n == Len(calls)
        IN  /\ (last'.op = "executeBatch" /\ last'.err = OK)
               => /\ \A i \in 1..n : CallError(calls, i, funds) = OK
                  /\ Len(last'.results) = n
                  /\ \A i \in 1..n : last'.results[i] = ReturnDataOf(calls[i])
                  /\ last'.events[Len(last'.events)].results = last'.results
                  /\ balance'[Recipient] =
                       balance[Recipient] + Cardinality({i \in 1..n : calls[i] = Payment})
            /\ (last'.op = "executeBatch" /\ last'.err \in ForwardFailures)
               => \E i \in 1..n :
                     /\ CallError(calls, i, funds) = last'.err
                     /\ \A j \in 1..(i - 1) : CallError(calls, j, funds) = OK ]_vars

\* a batch of a payment and two token transfers succeeded: the results are
\* those of its calls, in their order
C17_Witness ==
    /\ last.op = "executeBatch"
    /\ last.err = OK
    /\ last.req.calls = <<Payment, Call(Token, 0, [fn |-> "transfer"]),
                          Call(Token, 0, [fn |-> "transfer"])>>
    /\ last.results = <<NoBytes, BoolBytes(TRUE), BoolBytes(TRUE)>>
    /\ balance[Recipient] >= 1

(***************************************************************************)
(* The digest the scripts sign.                                            *)
(***************************************************************************)
\* the authorization digest with chainId and nonce as minimal big-endian
\* byte strings, 0 as the empty byte string
CanonicalDigest(chainId, delegatorAddr, authNonce) ==
    keccak256(MAGIC_PREFIX \o encodeRlp(<<toBeHexMinimal(chainId), delegatorAddr,
                                          toBeHexMinimal(authNonce)>>))

\* C20 as stated: in every script the digest that is signed encodes chainId
\* and nonce minimally, 0 as the empty byte string, and the 'Old hash' and
\* the 'New hash' of delegate_and_execute.ts are equal.
C20_CanonicalSignedDigest ==
    (script # NoScript /\ "signature" \in DOMAIN script)
      => /\ script.signature.signed
              = CanonicalDigest(script.chainId, script.delegatorAddr, script.authNonce)
         /\ script.name = "delegate_and_execute" => script.messageHash = script.hash

(***************************************************************************)
(* The two signing schemes.                                                *)
(***************************************************************************)
\* C19: a request whose signature a key holder made by the raw-digest scheme,
\* over the request's own hash or over an authorization digest, never
\* succeeds and changes nothing, whoever the key holder is; unexpired and
\* with an unused nonce it is refused for its signer.
C19_SchemesNotInterchangeable ==
    [][ ( /\ last'.op \in Gated
          /\ \E k \in Keys :
                \/ last'.req.signature = SigningKey_sign(k, DigestOf(last'))
                \/ last'.req.signature = SigningKey_sign(k, AuthorizationDigest) )
        => /\ last'.err # OK
           /\ UNCHANGED storage
           /\ ( /\ LengthsMatch(last')
                /\ last'.req.deadline >= now
                /\ last'.req.nonce \notin usedNonces )
              => last'.err = (IF last'.op = "executeBatch"
                              THEN "NotAllowedCaller" ELSE "InvalidSignature") ]_vars

\* a batch carrying the allowed caller bob's signature over its raw hash was
\* refused, its nonce unused and its deadline not passed
C19_Witness ==
    /\ last.op = "executeBatch"
    /\ last.req.signature = SigningKey_sign("bob", DigestOf(last))
    /\ "bob" \in allowedCallers
    /\ last.req.nonce \notin usedNonces
    /\ last.req.deadline >= now
    /\ last.err = "NotAllowedCaller"

(***************************************************************************)
(* The self-signing variant.                                               *)
(***************************************************************************)
\* C13 as stated: in the self-signing variant a setAdmin succeeds only when
\* the signer recovered from the prefixed admin-change hash is the account
\* itself.
C13_SetAdminSignedByThis ==
    [][ (last'.op = "setAdmin" /\ last'.err = OK) => SignedBy(last', This) ]_vars

\* C13 amended: in the self-signing variant a setAdmin succeeds only when the
\* signer recovered from the prefixed admin-change hash is the current admin,
\* and an unexpired one with an unused nonce that the admin signed succeeds;
\* it is executeBatch that succeeds only when the signer recovered from the
\* prefixed batch hash is the account itself.
C13_SetAdminSignedByAdmin ==
    [][ /\ (last'.op = "setAdmin" /\ last'.err = OK) => SignedBy(last', admin)
        /\ ( /\ last'.op = "setAdmin"
             /\ last'.req.deadline >= now
             /\ last'.req.nonce \notin usedNonces
             /\ SignedBy(last', admin) )
           => (last'.err = OK /\ admin' = last'.req.newAdmin)
        /\ (last'.op = "executeBatch" /\ last'.err = OK) => SignedBy(last', This) ]_vars

\* the admin alice, who is not the account, has handed the role to bob by a
\* setAdmin she signed, and a setAdmin the account itself signs is refused
C13_Witness ==
    /\ last.op = "setAdmin"
    /\ last.err = OK
    /\ last.events = <<AdminChanged("alice", "bob")>>
    /\ SignedBy(last, "alice")
    /\ \E n \in Nonces \ usedNonces :
          selfSigning_setAdmin(World, now,
              SignedAdminChange("alice", n, MaxTime,
                  GoodSignature(This, getAdminChangeHash("alice", n, MaxTime)))).err
            = "InvalidSignature"

(***************************************************************************)
(* The ungated BatchDelegator.                                             *)
(***************************************************************************)
\* every call of the batch goes through, given the funds the executor holds.
\* A call to the account itself never does: the ungated contract has the one
\* function executeBatch, whose return data, a bytes[], is no bool
AllCallsSucceed(calls, funds) ==
    \A i \in 1..Len(calls) :
        calls[i].target # This /\ CallError(calls, i, funds) = OK

\* C14: the ungated executeBatch checks no signer, nonce or deadline: whoever
\* invokes it, it fails only in the forwarding and succeeds exactly when every
\* forwarded call goes through; and after a success the identical batch
\* succeeds again for every invoker, whenever its calls go through again.
C14_UnsafeForwardsForAnyone ==
    [][ last'.op = "executeBatch"
        => LET calls == last'.req.calls
           IN  /\ last'.err \in {OK} \cup ForwardFailures
               /\ (last'.err = OK)
                    = AllCallsSucceed(calls, balance[This] + last'.msg.value)
               /\ last'.err = OK
                    => \A sender \in UnsafeInvokers, value \in {0, 1} :
                          AllCallsSucceed(calls, balance'[This] + value)
                            => unsafe_executeBatch(World', now',
                                   [sender |-> sender, value |-> value], calls).err = OK
               /\ UNCHANGED storage ]_vars

\* mallory's batch of one payment has succeeded, and the recipient holds two
\* payments: the batch went through twice
C14_Witness ==
    /\ last.op = "executeBatch"
    /\ last.err = OK
    /\ last.msg.sender = "mallory"
    /\ last.req.calls = <<Payment>>
    /\ balance[Recipient] = 2

\* C15 as stated: executeBatch succeeds only when the values of its calls sum
\* to at most the value sent with the invocation.
C15_ValueBoundedByMsgValue ==
    [][ (last'.op = "executeBatch" /\ last'.err = OK)
        => SumValues(last'.req.calls) <= last'.msg.value ]_vars

(***************************************************************************)
(* The order of the checks.                                                *)
(***************************************************************************)
\* C24: a gated request reports the first condition it violates in the order
\* array lengths (updateCallers), deadline, nonce, signature: mismatched
\* arrays give ArrayLengthMismatch whatever else is wrong; otherwise a passed
\* deadline gives DeadlineExpired; otherwise a used nonce gives
\* NonceAlreadyUsed; only then is the signature looked at, and only a request
\* that passed all of them has effects.
C24_CheckOrder ==
    [][ last'.op \in Gated
        => IF ~LengthsMatch(last') THEN last'.err = "ArrayLengthMismatch"
           ELSE IF last'.req.deadline < now THEN last'.err = "DeadlineExpired"
           ELSE IF last'.req.nonce \in usedNonces THEN last'.err = "NonceAlreadyUsed"
           ELSE IF last'.req.signature = MalformedSignature
                THEN last'.err = "ECDSAInvalidSignature"
           ELSE IF ~Authorized(last')
                THEN last'.err = (IF last'.op = "executeBatch"
                                  THEN "NotAllowedCaller" ELSE "InvalidSignature")
           ELSE last'.err \in Outcomes(last') ]_vars

\* an updateCallers with mismatched arrays, a passed deadline and a used
\* nonce, signed by a key that is not the admin, reported the mismatch
C24_Witness ==
    /\ last.op = "updateCallers"
    /\ last.err = "ArrayLengthMismatch"
    /\ last.req.deadline < now
    /\ last.req.nonce \in usedNonces
    /\ ~SignedBy(last, admin)

(***************************************************************************)
(* The zero admin.                                                         *)
(***************************************************************************)
\* C30: once the initialized executor's admin is the zero address, no
\* setAdmin and no updateCallers succeeds, and admin and allowedCallers stay
\* as they are.
C30_ZeroAdminTerminal ==
    [][ (initialized /\ admin = ZeroAddress)
        => /\ admin' = ZeroAddress
           /\ allowedCallers' = allowedCallers
           /\ last'.op \in {"setAdmin", "updateCallers"} => last'.err # OK ]_vars

\* the admin handed the role to the zero address after adding a caller, and
\* an unexpired setAdmin with an unused nonce whose signature bytes are no
\* signature was refused
C30_Witness ==
    /\ initialized
    /\ admin = ZeroAddress
    /\ allowedCallers # {}
    /\ last.op = "setAdmin"
    /\ last.req.signature = MalformedSignature
    /\ last.req.nonce \notin usedNonces
    /\ last.err = "ECDSAInvalidSignature"

(***************************************************************************)
(* Batches that call the executor itself.                                  *)
(***************************************************************************)
\* the outcome of the request call c delivers to the executor in world w
\* (a call carrying more than the executor holds does not go out; setAdmin
\* and updateCallers are not payable and refuse a call that carries value;
\* the value a call brings to executeBatch goes from the account to itself)
ReentrantOutcome(w, t, c) ==
    IF w.balance[This] < c.value THEN Revert(w, w, "insufficient balance")
    ELSE IF c.data.fn \in {"setAdmin", "updateCallers"} /\ c.value > 0
         THEN Revert(w, w, "not payable")
    ELSE CASE c.data.fn = "setAdmin" -> setAdmin(w, t, c.data.arg)
           [] c.data.fn = "updateCallers" -> updateCallers(w, t, c.data.arg)
           [] c.data.fn = "executeBatch" ->
                executeBatch(w, t, [sender |-> This, value |-> 0], c.data.arg)

\* the batch of invocation inv passes the checks of executeBatch and its
\* first call delivers a request to a gated entry point of the executor
AdmittedReentrantBatch(inv) ==
    /\ inv.op = "executeBatch"
    /\ inv.req.deadline >= now
    /\ inv.req.nonce \notin usedNonces
    /\ Authorized(inv)
    /\ 1 \in SelfCallsOf(inv.req.calls)

\* C25: executeBatch marks its nonce before it forwards. A first call that
\* brings an unexpired request with the batch's own nonce back to setAdmin,
\* updateCallers or executeBatch is refused with NonceAlreadyUsed and the
\* batch aborts, leaving the storage as it was. One that brings an unexpired,
\* rightly signed request with another unused nonce is accepted: when the
\* batch succeeds both nonces are used and the request's effect is in place,
\* when the batch fails the storage is as it was before the batch. (A call
\* that carries value to setAdmin or updateCallers, or more value than the
\* executor holds, delivers no request: the batch aborts.)
C25_ReentrantForwarding ==
    [][ AdmittedReentrantBatch(last')
        => LET c == last'.req.calls[1]
               inner == c.data.arg
               marked == MarkNonce(World, last'.req.nonce)
               innerInv == [op |-> c.data.fn, req |-> inner]
               \* the call goes out and its function takes what it carries
               delivered == /\ c.value <= balance[This]
                            /\ (c.value = 0 \/ c.data.fn = "executeBatch")
           IN  /\ ~delivered
                  => /\ ReentrantOutcome(marked, now, c).err
                          \in {"insufficient balance", "not payable"}
                     /\ last'.err = "BatchDelegator: call failed"
                     /\ UNCHANGED storage
               /\ (delivered /\ inner.deadline >= now /\ inner.nonce = last'.req.nonce)
                  => /\ ReentrantOutcome(marked, now, c).err = "NonceAlreadyUsed"
                     /\ last'.err = "BatchDelegator: call failed"
                     /\ UNCHANGED storage
               /\ (/\ delivered
                   /\ inner.deadline >= now
                   /\ inner.nonce # last'.req.nonce
                   /\ inner.nonce \notin usedNonces
                   /\ Authorized(innerInv))
                  => /\ ReentrantOutcome(marked, now, c).err = OK
                     /\ last'.err = OK
                        => /\ usedNonces' = usedNonces \cup {last'.req.nonce, inner.nonce}
                           /\ c.data.fn = "setAdmin" => admin' = inner.newAdmin
                           /\ c.data.fn = "updateCallers"
                              => allowedCallers' = allowedCallers \cup {inner.callers[1]}
                     /\ last'.err # OK
                        => /\ UNCHANGED storage
                           /\ last'.err \in ForwardFailures
                     /\ (Len(last'.req.calls) = 1 /\ c.data.fn # "executeBatch")
                        => last'.err = OK
                     /\ c.data.fn = "executeBatch" => last'.err = "abi.decode" ]_vars

\* an allowed caller's batch brought the admin's own setAdmin request with
\* the nonce of the batch: the batch failed and the nonce is still unused
C25_Witness ==
    /\ last.op = "executeBatch"
    /\ AdmittedReentrantBatch(last)
    /\ Len(last.req.calls) = 1
    /\ last.req.calls[1].data.fn = "setAdmin"
    /\ last.req.calls[1].data.arg.nonce = last.req.nonce
    /\ last.req.calls[1].data.arg.deadline >= now
    /\ Authorized([op |-> "setAdmin", req |-> last.req.calls[1].data.arg])
    /\ last.err = "BatchDelegator: call failed"

(***************************************************************************)
(* The calls a batch makes.                                                *)
(***************************************************************************)
\* the index of the first call of the batch that fails, 0 if none does
FirstFailure(calls, funds) ==
    IF \A i \in 1..Len(calls) : CallError(calls, i, funds) = OK THEN 0
    ELSE CHOOSE k \in 1..Len(calls) :
           /\ CallError(calls, k, funds) # OK
           /\ \A j \in 1..(k - 1) : CallError(calls, j, funds) = OK

\* C26: when call k of a batch is the first to fail, the calls made are
\* exactly those up to k, in batch order, and none after k; a batch whose
\* calls all go through makes each call once; a batch refused at its checks
\* makes none. No batch of n calls makes more than n calls.
C26_StopAtFirstFailure ==
    [][ last'.op = "executeBatch"
        => LET calls == last'.req.calls
               k == FirstFailure(calls, balance[This] + last'.msg.value)
           IN  /\ Len(last'.forwarded) <= Len(calls)
               /\ last'.err \in ForwardFailures
                  => /\ k > 0
                     /\ last'.forwarded = SubSeq(calls, 1, k)
               /\ last'.err = OK => (k = 0 /\ last'.forwarded = calls)
               /\ last'.err \notin ForwardFailures \cup {OK}
                  => last'.forwarded = <<>> ]_vars

\* the second of three calls failed: two calls were made, the third was not
C26_Witness ==
    /\ last.op = "executeBatch"
    /\ last.err = "BatchDelegator: call returned false"
    /\ last.req.calls = <<Call(Token, 0, [fn |-> "transfer"]),
                          Call(Token, 0, [fn |-> "transferFalse"]),
                          Payment>>
    /\ last.forwarded = <<Call(Token, 0, [fn |-> "transfer"]),
                          Call(Token, 0, [fn |-> "transferFalse"])>>

(***************************************************************************)
(* The deadline of a batch.                                                *)
(***************************************************************************)
\* C27: executeBatch reports DeadlineExpired exactly when the deadline of
\* the batch has passed at entry, whatever the nonce, and then it has made
\* no call and changed nothing; a batch admitted at entry never ends in
\* DeadlineExpired, also when a call brings a request whose own deadline has
\* passed.
C27_DeadlineCheckedOnce ==
    [][ last'.op = "executeBatch"
        => /\ last'.err = "DeadlineExpired" <=> last'.req.deadline < now
           /\ last'.err = "DeadlineExpired"
              => (last'.forwarded = <<>> /\ UNCHANGED storage)
           /\ last'.forwarded # <<>> => last'.req.deadline >= now ]_vars

\* an admitted batch forwarded a request whose deadline had passed: the
\* batch ended with the failure of the call
C27_Witness ==
    /\ last.op = "executeBatch"
    /\ AdmittedReentrantBatch(last)
    /\ last.req.calls[1].data.arg.deadline < now
    /\ last.forwarded = <<last.req.calls[1]>>
    /\ last.err = "BatchDelegator: call failed"

(***************************************************************************)
(* The invoker.                                                            *)
(***************************************************************************)
\* addresses other than the relayer that can send a transaction
OtherInvokers == Keys \cup {This}

\* C28: the outcome of a gated request does not depend on who invokes it.
\* setAdmin and updateCallers never read msg.sender: their outcome is the
\* one computed from the request, the storage and the time. executeBatch
\* invoked by any other address on the same state with the same request and
\* value gives the same error, the same storage and ledger, the same results
\* and the same events except for the executor field of its BatchExecuted.
C28_InvokerIndependence ==
    [][ /\ last'.op = "setAdmin"
           => LET r == setAdmin(World, now, last'.req)
              IN  r.err = last'.err /\ r.w = World' /\ r.events = last'.events
        /\ last'.op = "updateCallers"
           => LET r == updateCallers(World, now, last'.req)
              IN  r.err = last'.err /\ r.w = World' /\ r.events = last'.events
        /\ last'.op = "executeBatch"
           => \A other \in OtherInvokers :
                LET r == executeBatch(World, now,
                                      [sender |-> other, value |-> last'.msg.value],
                                      last'.req)
                IN  /\ r.err = last'.err
                    /\ [r.w EXCEPT !.forwarded = <<>>] = World'
                    /\ r.w.forwarded = last'.forwarded
                    /\ r.results = last'.results
                    /\ Len(r.events) = Len(last'.events)
                    /\ \A i \in 1..Len(r.events) :
                         \/ r.events[i] = last'.events[i]
                         \/ /\ i = Len(r.events)
                            /\ last'.events[i].name = "BatchExecuted"
                            /\ last'.events[i].executor = last'.msg.sender
                            /\ r.events[i] = [last'.events[i] EXCEPT !.executor = other]
      ]_vars

\* the relayer delivered an allowed caller's batch: it went through, and the
\* event names the relayer as executor and the caller as signer
C28_Witness ==
    /\ last.op = "executeBatch"
    /\ last.err = OK
    /\ last.msg.sender = "relayer"
    /\ last.events[Len(last.events)].executor = "relayer"
    /\ last.events[Len(last.events)].signer \in Keys \cap allowedCallers
    /\ last.req.calls # <<>>

(***************************************************************************)
(* Other instances of the executor.                                        *)
(***************************************************************************)
\* the states of another initialized instance of the contract
OtherInstances(n) ==
    {[admin |-> a, allowedCallers |-> c, usedNonces |-> u, initialized |-> TRUE,
      balance |-> [x \in Accounts |-> IF x = This THEN 1 ELSE 0], tokenState |-> {},
      forwarded |-> <<>>] :
        a \in AdminCandidates, c \in SUBSET Keys, u \in {{}, Nonces \ {n}}}

\* the fields of the request of each kind other than nonce and deadline
PayloadFields(op) ==
    CASE op = "setAdmin" -> {"newAdmin"}
      [] op = "updateCallers" -> {"callers", "isAdding"}
      [] op = "executeBatch" -> {"calls"}

\* the request of invocation inv is signed by the party instance w asks for
AuthorizedAt(w, inv) ==
    IF inv.op = "executeBatch"
    THEN \E k \in Keys \cap w.allowedCallers : SignedBy(inv, k)
    ELSE w.admin \in Keys /\ SignedBy(inv, w.admin)

\* the outcome of the request of invocation inv on instance w at time t
OutcomeAt(w, t, inv) ==
    CASE inv.op = "setAdmin" -> setAdmin(w, t, inv.req)
      [] inv.op = "updateCallers" -> updateCallers(w, t, inv.req)
      [] inv.op = "executeBatch" -> executeBatch(w, t, inv.msg, inv.req)

RECURSIVE BeValue(_)
BeValue(bytes) ==
    IF bytes = <<>> THEN 0
    ELSE BeValue(SubSeq(bytes, 1, Len(bytes) - 1)) * 256 + bytes[Len(bytes)]

\* the byte strings (each shorter than 56 bytes) whose RLP encodings, one
\* after the other, make up payload
RECURSIVE RlpDecodeItems(_)
RlpDecodeItems(payload) ==
    IF payload = <<>> THEN [ok |-> TRUE, items |-> <<>>]
    ELSE
      LET b == payload[1]
          first == IF b <= 127 THEN 1 ELSE 2
          length == IF b <= 127 THEN 1 ELSE b - 128
          end == first + length - 1
      IN  IF b > 183 \/ Len(payload) < end THEN [ok |-> FALSE, items |-> <<>>]
          ELSE LET rest == RlpDecodeItems(SubSeq(payload, end + 1, Len(payload)))
               IN  [ok |-> rest.ok,
                    items |-> <<SubSeq(payload, first, end)>> \o rest.items]

\* the items of the RLP list (with a payload shorter than 56 bytes) that
\* bytes is the encoding of, from its first byte to its last
decodeRlp(bytes) ==
    IF bytes = <<>> THEN [ok |-> FALSE, items |-> <<>>]
    ELSE IF bytes[1] < 192 \/ bytes[1] > 247 \/ Len(bytes) - 1 # bytes[1] - 192
    THEN [ok |-> FALSE, items |-> <<>>]
    ELSE RlpDecodeItems(Tail(bytes))

\* the bytes the signature was made over
Preimage(signature) == signature.signed.fields

\* the digest function of each script
ScriptDigest(name, chainId, delegatorAddr, authNonce) ==
    CASE name = "delegate" -> delegate_messageHash(chainId, delegatorAddr, authNonce)
      [] name = "delegate_and_execute" ->
           delegateAndExecute_messageHash(chainId, delegatorAddr, authNonce)
      [] name = "delegate_and_execute_2" ->
           delegateAndExecute2_messageHash(chainId, delegatorAddr, authNonce)

\* the run has signed its authorization
Signed == script # NoScript /\ "signature" \in DOMAIN script

\* C21: the bytes a script signs are the byte 0x05 followed by one RLP list
\* that runs to the last byte and holds three byte strings: the chain id,
\* the 20 bytes of the delegate address (the zero address like any other) and
\* the account nonce, in this order; and the digest is the one the script's
\* digest function gives for these three inputs.
C21_PreimageLayout ==
    Signed
    => LET preimage == Preimage(script.signature)
           list == decodeRlp(Tail(preimage))
       IN  /\ Head(preimage) = 5
           /\ list.ok
           /\ Len(list.items) = 3
           /\ BeValue(list.items[1]) = script.chainId
           /\ list.items[2] = script.delegatorAddr
           /\ BeValue(list.items[3]) = script.authNonce
           /\ script.messageHash
                = ScriptDigest(script.name, script.chainId, script.delegatorAddr,
                               script.authNonce)
           /\ script.signature.signed = script.messageHash

\* delegate.ts signed the revocation (zero delegate address) for chain 1 and
\* account nonce 0: 0x05, the list header 0xd7, 0x01, 0x94 and 20 zero
\* bytes, 0x80
C21_Witness ==
    /\ Signed
    /\ script.name = "delegate"
    /\ script.delegatorAddr = ZeroDelegatorAddr
    /\ script.chainId = 1
    /\ script.authNonce = 0
    /\ Preimage(script.signature) = <<5, 215, 1, 148>> \o ZeroDelegatorAddr \o <<128>>

(***************************************************************************)
(* The run of a script.                                                    *)
(***************************************************************************)
\* the calls a run has made before it sends its transaction
StepsBeforeSend ==
    <<"getNetwork", "getTransactionCount(authorizer)", "getTransactionCount(relayer)",
      "SigningKey.sign", "signTransaction">>

\* C22: a run issues eth_sendRawTransaction at most once, and when it does
\* it has fetched the chain id, the authorizer's nonce and the relayer's
\* nonce, signed the authorization with the authorizer's key and the
\* transaction with the relayer's key, in this order, and what it sends is
\* that signed transaction; a step in which something fails (the awaited
\* call, or the code that runs on its answer, also after the authorization
\* was signed) makes no call and sends nothing; after it the run makes no
\* further call and its only step is the exit with status 1; no call is made
\* twice; a run exits with status 0 only after its one transaction was sent
\* and accepted.
C22_SingleSubmission ==
    [][ script # NoScript
        => /\ script'.sent <= 1
           /\ script'.sent # script.sent
              => /\ script.steps = StepsBeforeSend
                 /\ script'.steps = Append(StepsBeforeSend, "eth_sendRawTransaction")
                 /\ {"chainId", "authNonce", "relayerNonce", "signature", "tx"}
                      \subseteq DOMAIN script
                 /\ script.signature.key = This
                 /\ script'.raw = Sign("relayer", script.tx)
                 /\ script'.broadcast = script'.raw
           /\ script.pc = "caught"
              => /\ script'.pc = "exited"
                 /\ script'.status = 1
                 /\ script'.steps = script.steps
                 /\ script'.sent = script.sent
           /\ script'.pc = "caught"
              => /\ script'.steps = script.steps
                 /\ script'.sent = script.sent
           /\ script'.pc = "exited"
              => script'.status = (IF script.pc = "done" /\ script.sent = 1 THEN 0 ELSE 1)
           /\ script.pc # "exited"
           /\ Len(script'.steps) >= Len(script.steps)
           /\ Len(script'.steps) <= Len(script.steps) + 1
           /\ SubSeq(script'.steps, 1, Len(script.steps)) = script.steps
           /\ \A i, j \in 1..Len(script'.steps) :
                 script'.steps[i] = script'.steps[j] => i = j ]_vars

\* encodeFunctionData threw after the authorization had been signed: the run
\* exited with status 1 holding a signature and no transaction, having made
\* no call after SigningKey.sign and sent nothing
C22_Witness ==
    /\ script # NoScript
    /\ script.pc = "exited"
    /\ script.status = 1
    /\ script.name = "delegate_and_execute_2"
    /\ "signature" \in DOMAIN script
    /\ "tx" \notin DOMAIN script
    /\ script.sent = 0
    /\ script.steps = SubSeq(StepsBeforeSend, 1, 4)

(***************************************************************************)
(* The transaction of a script.                                            *)
(***************************************************************************)
\* the run has built its transaction
Built == script # NoScript /\ "tx" \in DOMAIN script

\* C23: the transaction a script builds is of type 4 with value 0 and one
\* authorization. The authorization names the chain id and the account
\* nonce the run fetched and the delegate address it was given; its
\* signature is the authorizer's, over a preimage that decodes to these
\* three values. delegate.ts sends to the zero address with no data; both
\* versions of delegate_and_execute.ts send the encoded executeBatch(calls)
\* of their own two transfers to the authorizer's own address.
C23_OneConsistentAuthorization ==
    Built
    => LET tx == script.tx
           authorization == tx.authorizationList[1]
           list == decodeRlp(Tail(Preimage(authorization.signature)))
       IN  /\ tx.type = 4
           /\ tx.value = 0
           /\ Len(tx.authorizationList) = 1
           /\ authorization.chainId = script.chainId
           /\ authorization.address = script.delegatorAddr
           /\ authorization.nonce = script.authNonce
           /\ authorization.signature.key = This
           /\ ~authorization.signature.malformed
           /\ Head(Preimage(authorization.signature)) = 5
           /\ list.ok
           /\ Len(list.items) = 3
           /\ BeValue(list.items[1]) = authorization.chainId
           /\ list.items[2] = authorization.address
           /\ BeValue(list.items[3]) = authorization.nonce
           /\ script.name = "delegate" => (tx.to = ZeroAddress /\ tx.data = EmptyData)
           /\ script.name # "delegate"
              => /\ tx.to = This
                 /\ tx.data = encodeFunctionData("executeBatch((address,uint256,bytes)[])",
                        <<IF script.name = "delegate_and_execute"
                          THEN ScriptCalls ELSE ScriptCalls2>>)

\* the second version of delegate_and_execute.ts built its transaction for
\* chain 257 and account nonce 2
C23_Witness ==
    /\ Built
    /\ script.name = "delegate_and_execute_2"
    /\ script.chainId = 257
    /\ script.tx.authorizationList[1].nonce = 2
    /\ script.tx.to = This
    /\ script.tx.data.values[1][2].data.values = <<Recipient2, "amount">>
    /\ script.pc = "send"

(***************************************************************************)
(* What each operation leaves alone.                                       *)
(***************************************************************************)
\* the batch of invocation inv calls the executor itself
CallsItself(inv) ==
    inv.op = "executeBatch"
      /\ \E i \in 1..Len(inv.req.calls) : inv.req.calls[i].target = This

\* invocation inv is a request of kind fn signed by the admin, or a batch
\* that delivers one
AdminSigned(inv, fn) ==
    \/ inv.op = fn /\ SignedBy(inv, admin)
    \/ /\ inv.op = "executeBatch"
       /\ \E i \in SelfCallsOf(inv.req.calls) :
             /\ inv.req.calls[i].data.fn = fn
             /\ SignedBy([op |-> fn, req |-> inv.req.calls[i].data.arg], admin)

\* C31: initialize changes admin and the initialized flag only; setAdmin
\* changes admin and marks its nonce only, so the allowed callers stay;
\* updateCallers changes neither admin nor the flag; a batch that does not
\* call the executor changes neither admin nor the allowed callers. admin
\* changes only in a successful initialize or setAdmin signed by the admin,
\* the allowed callers only in a successful updateCallers signed by the
\* admin (invoked or delivered by a batch).
C31_Frames ==
    [][ /\ last'.op = "initialize"
           => (allowedCallers' = allowedCallers /\ usedNonces' = usedNonces)
        /\ last'.op = "setAdmin"
           => /\ allowedCallers' = allowedCallers
              /\ initialized' = initialized
              /\ usedNonces' \in {usedNonces, usedNonces \cup {last'.req.nonce}}
        /\ last'.op = "updateCallers"
           => /\ admin' = admin
              /\ initialized' = initialized
              /\ usedNonces' \in {usedNonces, usedNonces \cup {last'.req.nonce}}
        /\ (last'.op = "executeBatch" /\ ~CallsItself(last'))
           => /\ admin' = admin
              /\ allowedCallers' = allowedCallers
              /\ initialized' = initialized
        /\ admin' # admin
           => /\ last'.err = OK
              /\ last'.op = "initialize" \/ AdminSigned(last', "setAdmin")
        /\ allowedCallers' # allowedCallers
           => /\ last'.err = OK
              /\ AdminSigned(last', "updateCallers") ]_vars

\* alice handed the admin role to bob by setAdmin: bob, whom she had added,
\* is still the one allowed caller
C31_Witness ==
    /\ last.op = "setAdmin"
    /\ last.err = OK
    /\ last.events = <<AdminChanged("alice", "bob")>>
    /\ admin = "bob"
    /\ allowedCallers = {"bob"}
    /\ tokenState # {}

(***************************************************************************)
(* Removal from the allow list.                                            *)
(***************************************************************************)
\* the update lists k and the flag of k's last entry is false
Removes(req, k) ==
    \E i \in 1..Len(req.callers) :
        /\ req.callers[i] = k
        /\ ~req.isAdding[i]
        /\ \A j \in (i + 1)..Len(req.callers) : req.callers[j] # k

\* batches k's holder has signed: no call or a token transfer, with each
\* nonce and deadline
BatchesSignedBy(k) ==
    {SignedBatch(c, n, d, GoodSignature(k, getBatchHash(c, n, d))) :
        c \in {<<>>, <<Call(Token, 0, [fn |-> "transfer"])>>}, n \in Nonces, d \in Times}

\* C32: a successful updateCallers whose last entry for c is false leaves c
\* off the allow list, and in the state it leaves every batch c has signed
\* fails, with NotAllowedCaller when its deadline has not passed and its
\* nonce is unused; and whenever a key is not on the allow list a batch it
\* signed fails in this way and changes nothing.
C32_RevocationImmediate ==
    [][ /\ \A c \in Keys :
             (last'.op = "updateCallers" /\ last'.err = OK /\ Removes(last'.req, c))
             => /\ c \notin allowedCallers'
                /\ \A b \in BatchesSignedBy(c) :
                      LET r == executeBatch(World', now, [sender |-> "relayer", value |-> 0], b)
                      IN  /\ r.err # OK
                          /\ (b.deadline >= now /\ b.nonce \notin usedNonces')
                             => r.err = "NotAllowedCaller"
        /\ (last'.op = "executeBatch" /\ \E c \in Keys \ allowedCallers : SignedBy(last', c))
           => /\ last'.err # OK
              /\ UNCHANGED storage
              /\ (last'.req.deadline >= now /\ last'.req.nonce \notin usedNonces)
                 => last'.err = "NotAllowedCaller" ]_vars

\* the admin alice has just taken bob off the allow list with her second
\* request: nobody is allowed, and bob's unexpired batch with the unused
\* nonce is refused
C32_Witness ==
    /\ last.op = "updateCallers"
    /\ last.err = OK
    /\ last.events = <<CallerUpdated("bob", FALSE)>>
    /\ admin = "alice"
    /\ allowedCallers = {}
    /\ Cardinality(usedNonces) = 2
    /\ \E n \in Nonces \ usedNonces :
          executeBatch(World, now, [sender |-> "relayer", value |-> 0],
                       SignedBatch(<<>>, n, MaxTime,
                                   GoodSignature("bob", getBatchHash(<<>>, n, MaxTime)))).err
            = "NotAllowedCaller"

(***************************************************************************)
(* The admin and the allow list.                                           *)
(***************************************************************************)
\* C33: a batch signed by the admin, who is not on the allow list, fails,
\* with NotAllowedCaller when its deadline has not passed and its nonce is
\* unused; neither initialize nor setAdmin puts anybody on the allow list: a
\* key comes onto it only by a successful updateCallers that adds it.
C33_AdminNotImplicitlyAllowed ==
    [][ /\ ( /\ last'.op = "executeBatch"
             /\ admin \in Keys \ allowedCallers
             /\ SignedBy(last', admin) )
           => /\ last'.err # OK
              /\ (last'.req.deadline >= now /\ last'.req.nonce \notin usedNonces)
                 => last'.err = "NotAllowedCaller"
        /\ \A k \in allowedCallers' \ allowedCallers :
              /\ last'.err = OK
              /\ \/ last'.op = "updateCallers" /\ Adds(last'.req, k)
                 \/ /\ last'.op = "executeBatch"
                    /\ \E i \in SelfCallsOf(last'.req.calls) :
                          /\ last'.req.calls[i].data.fn = "updateCallers"
                          /\ Adds(last'.req.calls[i].data.arg, k) ]_vars

\* the admin alice, who has put bob on the allow list and not herself, signed
\* an unexpired batch with an unused nonce: it was refused
C33_Witness ==
    /\ last.op = "executeBatch"
    /\ admin = "alice"
    /\ allowedCallers = {"bob"}
    /\ SignedBy(last, "alice")
    /\ last.req.deadline >= now
    /\ last.req.nonce \notin usedNonces
    /\ last.err = "NotAllowedCaller"

(***************************************************************************)
(* The BatchExecuted event.                                                *)
(***************************************************************************)
\* the indices of the BatchExecuted events among events
BatchExecutedAt(events) ==
    {i \in 1..Len(events) : events[i].name = "BatchExecuted"}

\* C34: a successful executeBatch has made every call of the batch and emits
\* one BatchExecuted, as its last event: the signer is the allowed caller
\* whose signature the batch carries, the executor is the invoker, calls is
\* the batch and results holds the data each call returned, in batch order;
\* a failing executeBatch leaves no event.
C34_BatchExecutedEvent ==
    [][ last'.op = "executeBatch"
        => /\ last'.err = OK
              => LET events == last'.events
                     calls == last'.req.calls
                     e == events[Len(events)]
                 IN  /\ BatchExecutedAt(events) = {Len(events)}
                     /\ e.signer \in Keys \cap allowedCallers
                     /\ SignedBy(last', e.signer)
                     /\ e.executor = last'.msg.sender
                     /\ e.calls = calls
                     /\ e.results = last'.results
                     /\ Len(e.results) = Len(calls)
                     /\ \A i \in 1..Len(calls) : e.results[i] = ReturnDataOf(calls[i])
                     /\ Len(last'.forwarded) >= Len(calls)
           /\ last'.err # OK => last'.events = <<>> ]_vars

\* bob's batch delivered the admin's setAdmin request through the relayer:
\* AdminChanged, then the one BatchExecuted
C34_Witness ==
    /\ last.op = "executeBatch"
    /\ last.err = OK
    /\ Len(last.events) = 2
    /\ last.events[1].name = "AdminChanged"
    /\ last.events[2] = BatchExecuted("bob", "relayer", last.req.calls, <<NoBytes>>)

(***************************************************************************)
(* The batch without calls.                                                *)
(***************************************************************************)
\* C35: an unexpired executeBatch with no calls and an unused nonce, signed
\* by an allowed caller, succeeds: it makes no call, returns no results,
\* emits BatchExecuted with no calls and no results, marks its nonce and
\* changes nothing else.
C35_EmptyBatch ==
    [][ ( /\ last'.op = "executeBatch"
          /\ last'.req.calls = <<>>
          /\ last'.req.deadline >= now
          /\ last'.req.nonce \notin usedNonces
          /\ Authorized(last') )
        => /\ last'.err = OK
           /\ last'.forwarded = <<>>
           /\ last'.results = <<>>
           /\ \E k \in Keys \cap allowedCallers :
                 /\ SignedBy(last', k)
                 /\ last'.events = <<BatchExecuted(k, last'.msg.sender, <<>>, <<>>)>>
           /\ usedNonces' = usedNonces \cup {last'.req.nonce}
           /\ UNCHANGED <<admin, allowedCallers, initialized, ledger>> ]_vars

\* bob's batch without calls went through and its nonce is used
C35_Witness ==
    /\ last.op = "executeBatch"
    /\ last.req.calls = <<>>
    /\ last.err = OK
    /\ last.events = <<BatchExecuted("bob", "relayer", <<>>, <<>>)>>
    /\ last.results = <<>>
    /\ last.req.nonce \in usedNonces

====
